---------------------------- MODULE Spec2Model ----------------------------
(***************************************************************************)
(* Yield optimizer: the yield comparison (src/src/yieldMonitor.ts) and the *)
(* construction of the rebalance transactions                              *)
(* (src/src/triggerx-yield-optimizer.ts, and its fork-test twin in         *)
(* src/unnamed/part_002).                                                  *)
(*                                                                         *)
(* One run of generateRebalanceTransactions is a sequence of steps that    *)
(* are separated by the awaits of the code: compareYields starts, its four *)
(* adapters (Promise.all) await their contract reads one by one and in any *)
(* interleaving, the comparison is computed, the plan builder imports the  *)
(* adapters and re-reads the two balances one after the other, and the     *)
(* transaction list is built.  The chain is the environment: every read    *)
(* returns what the contract would return at that moment, the rates drawn  *)
(* from 0..MaxRate (basis points), the balances from 0..MaxBalance (token  *)
(* units).                                                                 *)
(***************************************************************************)
EXTENDS Integers, Sequences, FiniteSets

VARIABLES
    pc,                 \* position of the run
    caller,             \* which builder runs: "optimizer" or "forkTest"
    minYieldDifference, \* compareYields: parsed MIN_YIELD_DIFFERENCE
    pending,            \* compareYields: reads of Promise.all not yet resolved
    fetched,            \* compareYields: values of the resolved reads
    yieldData,          \* the YieldComparison compareYields returned
    aaveBalance,        \* builder: getAaveBalance re-read
    compoundBalance,    \* builder: getCompoundBalance re-read
    transactions,       \* builder: the returned transaction list
    readOutcome,        \* history: how each read of this run ended
    awaiting,           \* the contract read each adapter is waiting for
    fork,               \* script: the forked chain the Safe module script runs on
    multiSendData,      \* the multiSend calldata built for the module execution
    execution,          \* script: the call of execTransactionFromModule, if made
    codec,              \* batch encoder: a call list, its bytes, the records read back
    job,                \* job: the job input createJob was given
    trigger,            \* job: the condition checks TriggerX made, and the last one
    chain,              \* cycle: what the contracts hold at this block
    order,              \* the adapters of a Promise.all in the order they settled
    response,           \* the status and body the monitor's handler answered with
    conversion          \* adapters: a raw rate, the reads made, the basis points

\* the variables of the yield optimizer run, but its position pc
runVars == <<caller, minYieldDifference, pending, fetched, yieldData,
             aaveBalance, compoundBalance, transactions, readOutcome,
             awaiting>>

\* the variables of the Safe module script, but its position pc
scriptVars == <<fork, multiSendData, execution>>

\* the variables of the created job
jobVars == <<job, trigger>>

\* the variables of one decision cycle on a fixed block
cycleVars == <<chain, order, response>>

vars == <<pc, caller, minYieldDifference, pending, fetched, yieldData,
          aaveBalance, compoundBalance, transactions, readOutcome,
          awaiting, fork, multiSendData, execution, codec, job, trigger,
          chain, order, response, conversion>>

-----------------------------------------------------------------------------
\* Bounds of the model
MaxRate == 3
MaxBalance == 2
MaxEnvLen == 2
MaxForkUnits == 2
MaxCalls == 2
MaxCycles == 2
MaxBp == 8
MaxUtilization == 1

\* Characters an environment string is made of in the model
EnvChars == {"\t", "-", "0", "1", "2", "a"}

Rates == 0..MaxRate
Balances == 0..MaxBalance

-----------------------------------------------------------------------------
\* JavaScript numbers that may be NaN: parseInt returns one
NaN == [nan |-> TRUE, val |-> 0]

Num(n) == [nan |-> FALSE, val |-> n]

\* JS  a >= b  with b possibly NaN: every comparison with NaN is false
GreaterEq(a, b) == (~b.nan) /\ a >= b.val

\* Math.abs on integers
MathAbs(x) == IF x < 0 THEN -x ELSE x

-----------------------------------------------------------------------------
\* Environment variables: undefined, or a string (a sequence of characters)
Undefined == [set |-> FALSE, str |-> <<>>]

EnvStrings == UNION {[1..n -> EnvChars] : n \in 0..MaxEnvLen}

EnvValues == {Undefined} \cup {[set |-> TRUE, str |-> s] : s \in EnvStrings}

\* JS  process.env.X || dflt : undefined and "" are falsy
OrElse(env, dflt) == IF env.set /\ env.str # <<>> THEN env.str ELSE dflt

\* StrWhiteSpaceChar, the characters parseInt skips before the number: tab,
\* line feed, vertical tab, form feed, carriage return, space, no-break
\* space, U+FEFF, U+1680, and the line and space separators from U+2000 on.
\* A character is a string of length one; the separators from U+2000 on,
\* which a string of this module cannot hold, are written as their code
\* points.
WhiteSpace ==
    {"\t", "\n", "\f", "\r", " ", " ",
     "", "﻿", " ",
     "U+2000", "U+2001", "U+2002", "U+2003", "U+2004", "U+2005",
     "U+2006", "U+2007", "U+2008", "U+2009", "U+200A", "U+2028",
     "U+2029", "U+202F", "U+205F", "U+3000"}

DecDigits == <<"0", "1", "2", "3", "4", "5", "6", "7", "8", "9">>

HexLower == <<"a", "b", "c", "d", "e", "f">>

HexUpper == <<"A", "B", "C", "D", "E", "F">>

\* the value of character c as a digit, or 99 when it is none
DigitValue(c) ==
    IF \E i \in 1..10 : DecDigits[i] = c
    THEN (CHOOSE i \in 1..10 : DecDigits[i] = c) - 1
    ELSE IF \E i \in 1..6 : HexLower[i] = c \/ HexUpper[i] = c
    THEN (CHOOSE i \in 1..6 : HexLower[i] = c \/ HexUpper[i] = c) + 9
    ELSE 99

RECURSIVE TrimStart(_)
TrimStart(s) ==
    IF s # <<>> /\ Head(s) \in WhiteSpace THEN TrimStart(Tail(s)) ELSE s

\* the longest prefix of s made of digits of radix R: how many, and their value
RECURSIVE ParseDigits(_, _, _, _)
ParseDigits(s, R, count, acc) ==
    IF s # <<>> /\ DigitValue(Head(s)) < R
    THEN ParseDigits(Tail(s), R, count + 1, acc * R + DigitValue(Head(s)))
    ELSE [n |-> count, v |-> acc]

\* JS parseInt(string) with no radix argument
parseInt(s) ==
    LET t == TrimStart(s)
        neg == t # <<>> /\ Head(t) = "-"
        u == IF t # <<>> /\ Head(t) \in {"+", "-"} THEN Tail(t) ELSE t
        hex == Len(u) >= 2 /\ u[1] = "0" /\ u[2] \in {"x", "X"}
        R == IF hex THEN 16 ELSE 10
        w == IF hex THEN SubSeq(u, 3, Len(u)) ELSE u
        d == ParseDigits(w, R, 0, 0)
    IN  IF d.n = 0 THEN NaN ELSE Num(IF neg THEN -d.v ELSE d.v)

-----------------------------------------------------------------------------
\* compareYields: the comparison computed from the four reads

\* mutant: the no-position case forgotten
currentProtocol_NoNone(aaveBal, compoundBal) ==
    IF aaveBal > 0 THEN "aave" ELSE "compound"

\* mutant: the position is where the larger balance is
currentProtocol_Larger(aaveBal, compoundBal) ==
    IF aaveBal = 0 /\ compoundBal = 0 THEN "none"
    ELSE IF aaveBal >= compoundBal THEN "aave"
    ELSE "compound"

currentProtocol(aaveBal, compoundBal) ==
    IF aaveBal > 0 THEN "aave"
    ELSE IF compoundBal > 0 THEN "compound"
    ELSE "none"

\* mutant: the absolute value forgotten
difference_NoAbs(aaveAPY, compoundAPY) == aaveAPY - compoundAPY

difference(aaveAPY, compoundAPY) == MathAbs(aaveAPY - compoundAPY)

\* mutant: a tie goes to aave
betterProtocol_TieToAave(aaveAPY, compoundAPY) ==
    IF aaveAPY >= compoundAPY THEN "aave" ELSE "compound"

betterProtocol(aaveAPY, compoundAPY) ==
    IF aaveAPY > compoundAPY THEN "aave"
    ELSE IF compoundAPY > aaveAPY THEN "compound"
    ELSE "equal"

\* mutant: the threshold is exclusive
shouldMove_Strict(diff, minDiff, better, current) ==
    /\ (~minDiff.nan) /\ diff > minDiff.val
    /\ better # "equal"
    /\ current # "none"
    /\ current # better

\* mutant: the no-position check forgotten
shouldMove_NoNoneCheck(diff, minDiff, better, current) ==
    /\ GreaterEq(diff, minDiff)
    /\ better # "equal"
    /\ current # better

shouldMove(diff, minDiff, better, current) ==
    /\ GreaterEq(diff, minDiff)
    /\ better # "equal"
    /\ current # "none"
    /\ current # better

\* the record compareYields returns (the timestamp, Date.now(), is left out)
YieldComparison(aaveAPY, compoundAPY, aaveBal, compoundBal, minDiff) ==
    LET current == currentProtocol(aaveBal, compoundBal)
        diff == difference(aaveAPY, compoundAPY)
        better == betterProtocol(aaveAPY, compoundAPY)
    IN  [aaveAPY |-> aaveAPY,
         compoundAPY |-> compoundAPY,
         difference |-> diff,
         betterProtocol |-> better,
         shouldMove |-> shouldMove(diff, minDiff, better, current),
         currentProtocol |-> current]

-----------------------------------------------------------------------------
\* Addresses (configuration of the run)
AAVE_POOL_ADDRESS == "AAVE_POOL_ADDRESS"

COMPOUND_COMET_ADDRESS == "COMPOUND_COMET_ADDRESS"

tokenAddress == "TOKEN_ADDRESS"

safeAddress == "SAFE_WALLET_ADDRESS"

\* Interface.encodeFunctionData: the call of fn of the ABI with its arguments.
\* An amount reaches it as amountToMove.toString(), the exact decimal string
\* of a bigint, and is encoded as that uint256: the model passes the integer.
encodeFunctionData(abi, fn, args) == [abi |-> abi, fn |-> fn, args |-> args]

\* Step 1: withdraw from the current protocol
WithdrawStep(current, amount) ==
    IF current = "aave"
    THEN <<[to |-> AAVE_POOL_ADDRESS, value |-> "0",
            data |-> encodeFunctionData("AAVE_POOL_ABI", "withdraw",
                                        <<tokenAddress, amount, safeAddress>>)]>>
    ELSE IF current = "compound"
    THEN <<[to |-> COMPOUND_COMET_ADDRESS, value |-> "0",
            data |-> encodeFunctionData("COMPOUND_COMET_ABI", "withdraw",
                                        <<tokenAddress, amount>>)]>>
    ELSE <<>>

\* mutant: the protocol the funds leave is approved
approveAddress_Source(better) ==
    IF better = "aave" THEN COMPOUND_COMET_ADDRESS ELSE AAVE_POOL_ADDRESS

approveAddress(better) ==
    IF better = "aave" THEN AAVE_POOL_ADDRESS ELSE COMPOUND_COMET_ADDRESS

\* Step 2: approve the new protocol
ApproveStep(better, amount) ==
    <<[to |-> tokenAddress, value |-> "0",
       data |-> encodeFunctionData("ERC20_ABI", "approve",
                                   <<approveAddress(better), amount>>)]>>

\* Step 3: deposit to the better protocol
SupplyStep(better, amount) ==
    IF better = "aave"
    THEN <<[to |-> AAVE_POOL_ADDRESS, value |-> "0",
            data |-> encodeFunctionData("AAVE_POOL_ABI", "supply",
                                        <<tokenAddress, amount, safeAddress, "0">>)]>>
    ELSE IF better = "compound"
    THEN <<[to |-> COMPOUND_COMET_ADDRESS, value |-> "0",
            data |-> encodeFunctionData("COMPOUND_COMET_ABI", "supply",
                                        <<tokenAddress, amount>>)]>>
    ELSE <<>>

\* mutant: the approval pushed before the withdrawal
RebalanceTransactions_ApproveFirst(yd, amount) ==
    ApproveStep(yd.betterProtocol, amount)
        \o WithdrawStep(yd.currentProtocol, amount)
        \o SupplyStep(yd.betterProtocol, amount)

\* generateRebalanceTransactions, from the amount on: the transactions pushed
RebalanceTransactions(yd, amount) ==
    WithdrawStep(yd.currentProtocol, amount)
        \o ApproveStep(yd.betterProtocol, amount)
        \o SupplyStep(yd.betterProtocol, amount)

\* generateTestRebalanceTransactions (the fork-test twin), from the amount on
TestRebalanceTransactions(yd, amount) ==
    LET step1 ==
            IF yd.currentProtocol = "aave"
            THEN <<[to |-> AAVE_POOL_ADDRESS, value |-> "0",
                    data |-> encodeFunctionData("AAVE_POOL_ABI", "withdraw",
                                 <<tokenAddress, amount, safeAddress>>)]>>
            ELSE IF yd.currentProtocol = "compound"
            THEN <<[to |-> COMPOUND_COMET_ADDRESS, value |-> "0",
                    data |-> encodeFunctionData("COMPOUND_COMET_ABI", "withdraw",
                                 <<tokenAddress, amount>>)]>>
            ELSE <<>>
        spender ==
            IF yd.betterProtocol = "aave"
            THEN AAVE_POOL_ADDRESS ELSE COMPOUND_COMET_ADDRESS
        step2 ==
            <<[to |-> tokenAddress, value |-> "0",
               data |-> encodeFunctionData("ERC20_ABI", "approve",
                                           <<spender, amount>>)]>>
        step3 ==
            IF yd.betterProtocol = "aave"
            THEN <<[to |-> AAVE_POOL_ADDRESS, value |-> "0",
                    data |-> encodeFunctionData("AAVE_POOL_ABI", "supply",
                                 <<tokenAddress, amount, safeAddress, "0">>)]>>
            ELSE IF yd.betterProtocol = "compound"
            THEN <<[to |-> COMPOUND_COMET_ADDRESS, value |-> "0",
                    data |-> encodeFunctionData("COMPOUND_COMET_ABI", "supply",
                                 <<tokenAddress, amount>>)]>>
            ELSE <<>>
    IN  step1 \o step2 \o step3

\* mutant: the balance of the other protocol is taken
amountToMove_Other(yd, aaveBal, compoundBal) ==
    IF yd.currentProtocol = "aave" THEN compoundBal ELSE aaveBal

\* the amount generateRebalanceTransactions moves: all funds of the current
\* protocol, as the builder re-read them
amountToMove(yd, aaveBal, compoundBal) ==
    IF yd.currentProtocol = "aave" THEN aaveBal ELSE compoundBal

\* mutant: the zero-amount return forgotten
RebalancePlan_NoZeroCheck(yd, aaveBal, compoundBal) ==
    RebalanceTransactions(yd, amountToMove(yd, aaveBal, compoundBal))

\* generateRebalanceTransactions, from its two balances on
RebalancePlan(yd, aaveBal, compoundBal) ==
    IF amountToMove(yd, aaveBal, compoundBal) = 0
    THEN <<>>
    ELSE RebalanceTransactions(yd, amountToMove(yd, aaveBal, compoundBal))

\* generateTestRebalanceTransactions, from its two balances on
TestRebalancePlan(yd, aaveBal, compoundBal) ==
    LET amount == IF yd.currentProtocol = "aave" THEN aaveBal ELSE compoundBal
    IN  IF amount = 0 THEN <<>> ELSE TestRebalanceTransactions(yd, amount)

-----------------------------------------------------------------------------
\* The protocol adapters (src/src/contracts/aave.ts, src/unnamed/part_001)

\* What an ethers contract read can end with: a decoded value, or an error.
\* BAD_DATA is the code ethers gives a response it cannot decode: the empty
\* response "0x" of a contract or reserve that does not exist
\* (BAD_DATA_EMPTY) and a non-empty response of the wrong shape
\* (BAD_DATA_MALFORMED).  NETWORK_ERROR stands for every other error
\* (RPC failure, timeout, rate limit).
ErrorKinds == {"BAD_DATA_EMPTY", "BAD_DATA_MALFORMED", "NETWORK_ERROR"}

Ok(v) == [err |-> "none", val |-> v]

Err(e) == [err |-> e, val |-> 0]

Responses(Values) == {Ok(v) : v \in Values} \cup {Err(e) : e \in ErrorKinds}

\* the place of a response in a run that did not make the read
NotRead == Ok(0)

\* error.code === 'BAD_DATA' || error.value === '0x' ||
\* error.message?.includes('could not decode')
isBadData(e) == e \in {"BAD_DATA_EMPTY", "BAD_DATA_MALFORMED"}

\* how an async function ends: it returns a value or it throws
Returns(v) == [rejects |-> FALSE, value |-> v]

Throws == [rejects |-> TRUE, value |-> 0]

\* mutant: getAaveAPY without any of its catch blocks
AaveAPYAdapter_NoCatch(tokens, data) ==
    IF tokens.err # "none" THEN Throws
    ELSE IF tokens.val = 0 THEN Returns(0)
    ELSE IF data.err # "none" THEN Throws
    ELSE Returns(data.val)

\* getAaveAPY.  tokens is the response of getReserveTokensAddresses (val 0:
\* the zero address, val 1: an aToken), data the one of getReserveData (val:
\* the basis points the conversion of its liquidityRate gives; 0 for a
\* liquidityRate of 0).  The inner handlers re-throw an error that is not
\* BAD_DATA; the catch of the whole body returns 0 for every error.
AaveAPYAdapter(tokens, data) ==
    LET body ==
            IF tokens.err # "none"
            THEN IF isBadData(tokens.err) THEN Returns(0) ELSE Throws
            ELSE IF tokens.val = 0 THEN Returns(0)
            ELSE IF data.err # "none"
            THEN IF isBadData(data.err) THEN Returns(0) ELSE Throws
            ELSE Returns(data.val)
    IN  IF body.rejects THEN Returns(0) ELSE body

\* getCompoundAPY.  code is the response of provider.getCode (val 0: "0x",
\* val 1: deployed code), then getUtilization and getSupplyRate (val: the
\* basis points the conversion of the supply rate gives).
CompoundAPYAdapter(code, utilization, supplyRate) ==
    LET body ==
            IF code.err # "none" THEN Throws
            ELSE IF code.val = 0 THEN Returns(0)
            ELSE IF utilization.err # "none" THEN Returns(0)
            ELSE IF supplyRate.err # "none" THEN Throws
            ELSE Returns(supplyRate.val)
    IN  IF body.rejects THEN Returns(0) ELSE body

\* getAaveBalance.  tokens as in getAaveAPY, balance the response of the
\* aToken's balanceOf.
AaveBalanceAdapter(tokens, balance) ==
    LET body ==
            IF tokens.err # "none"
            THEN IF isBadData(tokens.err) THEN Returns(0) ELSE Throws
            ELSE IF tokens.val = 0 THEN Returns(0)
            ELSE IF balance.err # "none"
            THEN IF isBadData(balance.err) THEN Returns(0) ELSE Throws
            ELSE Returns(balance.val)
    IN  IF body.rejects THEN Returns(0) ELSE body

\* getCompoundBalance.  balance is the response of comet.balanceOf.
CompoundBalanceAdapter(balance) ==
    IF balance.err # "none" THEN Returns(0) ELSE Returns(balance.val)

\* How a read ended, by the branch of the adapter that handled it: "ok" when
\* every response was a value, "unsupported" in the branches that take the
\* asset or contract as not there, "failed" in the branches of an error.
\* The handlers of aave.ts take every BAD_DATA error, empty or malformed,
\* as 'token is not supported' (aave.ts 52, 70, 107, 137, 192, 200).
ErrorClass(e) == IF isBadData(e) THEN "unsupported" ELSE "failed"

AaveReadClass(tokens, second) ==
    IF tokens.err # "none" THEN ErrorClass(tokens.err)
    ELSE IF tokens.val = 0 THEN "unsupported"
    ELSE IF second.err # "none" THEN ErrorClass(second.err)
    ELSE "ok"

\* The Compound adapters look at no error code: only the empty code of
\* getCode is 'not deployed', every error is warned of or logged as an error.
CompoundAPYClass(code, utilization, supplyRate) ==
    IF code.err # "none" THEN "failed"
    ELSE IF code.val = 0 THEN "unsupported"
    ELSE IF utilization.err # "none" THEN "failed"
    ELSE IF supplyRate.err # "none" THEN "failed"
    ELSE "ok"

CompoundBalanceClass(balance) ==
    IF balance.err # "none" THEN "failed" ELSE "ok"

-----------------------------------------------------------------------------
\* The batch of the Safe module script
\* (src/foundry/script/SafeModuleAaveSupply.s.sol)

\* A byte string is a sequence of numbers in 0..255.
\* n as size bytes, most significant first: what abi.encodePacked gives for
\* a uint8 (size 1) and a uint256 (size 32), and abi.encode for every word.
\* The numbers of the model are below 2^31: the bytes above the lowest four
\* are zero.
BigEndian(n, size) ==
    [i \in 1..size |->
        IF size - i > 3 THEN 0 ELSE (n \div (256 ^ (size - i))) % 256]

\* size zero bytes
Zeros(size) == [i \in 1..size |-> 0]

RECURSIVE Concat(_)
\* abi.encodePacked of byte strings: one after the other, nothing between
Concat(parts) ==
    IF parts = <<>> THEN <<>> ELSE Head(parts) \o Concat(Tail(parts))

\* the constants of the script
USDC_ADDRESS ==
    <<175, 136, 208, 101, 231, 124, 140, 194, 35, 147,
      39, 197, 237, 179, 164, 50, 38, 142, 88, 49>>

AAVE_POOL ==
    <<121, 74, 97, 53, 141, 104, 69, 89, 79, 148,
      220, 29, 176, 42, 37, 43, 91, 72, 20, 173>>

MULTISEND_CALL_ONLY ==
    <<150, 65, 215, 100, 252, 19, 200, 182, 36, 192,
      68, 48, 199, 53, 108, 28, 124, 129, 2, 226>>

SAFE_MODULE_ADDRESS ==
    <<16, 6, 86, 55, 44, 130, 21, 57, 101, 31,
      89, 5, 202, 57, 183, 201, 95, 154, 164, 51>>

\* the Aave pool the plan builder addresses when the environment does not
\* set AAVE_POOL_ADDRESS: the default of contracts/aave.ts
AAVE_POOL_ADDRESS_DEFAULT ==
    <<106, 228, 61, 50, 113, 255, 104, 136, 231, 252,
      67, 253, 115, 33, 165, 3, 255, 115, 137, 81>>

\* the Comet market the plan builder addresses (its default)
COMPOUND_COMET ==
    <<174, 193, 244, 142, 2, 207, 184, 34, 190, 149,
      139, 104, 199, 149, 113, 86, 235, 63, 11, 110>>

SUPPLY_AMOUNT == 100000000

CALL == 0

DELEGATECALL == 1

\* the four-byte selectors the compiler derives from the signatures
approveSelector == <<9, 94, 167, 179>>

supplySelector == <<97, 123, 160, 55>>

multiSendSelector == <<141, 128, 255, 10>>

\* the selectors of the other functions the plan builder encodes:
\* withdraw(address,uint256,address) of AAVE_POOL_ABI, supply(address,
\* uint256) and withdraw(address,uint256) of COMPOUND_COMET_ABI
withdrawSelector == <<105, 50, 141, 236>>

cometSupplySelector == <<242, 185, 253, 184>>

cometWithdrawSelector == <<243, 254, 243, 163>>

\* abi.encode of one static argument: a 32-byte word; an address is
\* left-padded with zero bytes
UintWord(n) == BigEndian(n, 32)

AddressWord(a) == Zeros(12) \o a

\* abi.encodeWithSelector with static arguments
encodeWithSelector(selector, words) == selector \o Concat(words)

\* calldata of IERC20.approve(spender, amount)
approveData(spender, amount) ==
    encodeWithSelector(approveSelector,
                       <<AddressWord(spender), UintWord(amount)>>)

\* calldata of IAavePool.supply(asset, amount, onBehalfOf, referralCode)
supplyData(asset, amount, onBehalfOf, referralCode) ==
    encodeWithSelector(supplySelector,
                       <<AddressWord(asset), UintWord(amount),
                         AddressWord(onBehalfOf), UintWord(referralCode)>>)

\* mutant: the record without its length field
encodeTx_NoLength(operation, to, value, data) ==
    Concat(<<BigEndian(operation, 1), to, BigEndian(value, 32), data>>)

\* mutant: the value written in 31 bytes
encodeTx_ShortValue(operation, to, value, data) ==
    Concat(<<BigEndian(operation, 1), to, BigEndian(value, 31),
             BigEndian(Len(data), 32), data>>)

\* one record of the batch:
\* abi.encodePacked(uint8(operation), to, uint256(value),
\*                  uint256(data.length), data)
encodeTx(operation, to, value, data) ==
    Concat(<<BigEndian(operation, 1), to, BigEndian(value, 32),
             BigEndian(Len(data), 32), data>>)

\* a call of a batch, as the script fixes it: the operation is CALL
Call(to, value, data) == [to |-> to, value |-> value, data |-> data]

RECURSIVE encodeTransactions(_)
\* the batch: abi.encodePacked(tx1, tx2, ...) of the records, every one
\* with the operation CALL
encodeTransactions(calls) ==
    IF calls = <<>> THEN <<>>
    ELSE encodeTx(CALL, Head(calls).to, Head(calls).value, Head(calls).data)
             \o encodeTransactions(Tail(calls))

\* abi.encodeWithSelector(multiSend.selector, transactions) with the dynamic
\* argument transactions: offset word, length word, the bytes, zero padding
\* to a multiple of 32
multiSendCalldata(transactionBytes) ==
    multiSendSelector \o UintWord(32) \o UintWord(Len(transactionBytes))
        \o transactionBytes
        \o Zeros((32 - (Len(transactionBytes) % 32)) % 32)

\* _buildAaveSupplyMultiSend, its packed batch: approve, then supply on
\* behalf of the Safe
AaveSupplyTransactions(safe) ==
    encodeTransactions(
        <<Call(USDC_ADDRESS, 0, approveData(AAVE_POOL, SUPPLY_AMOUNT)),
          Call(AAVE_POOL, 0,
               supplyData(USDC_ADDRESS, SUPPLY_AMOUNT, safe, 0))>>)

\* _buildAaveSupplyMultiSend, its return value
buildAaveSupplyMultiSend(safe) ==
    multiSendCalldata(AaveSupplyTransactions(safe))

\* the 20 bytes of an address the plan builder names, in an environment
\* that sets neither AAVE_POOL_ADDRESS nor COMPOUND_COMET_ADDRESS (the two
\* defaults) and sets TOKEN_ADDRESS to USDC; safe is the Safe of the fork
AddressBytes(name, safe) ==
    CASE name = AAVE_POOL_ADDRESS -> AAVE_POOL_ADDRESS_DEFAULT
      [] name = COMPOUND_COMET_ADDRESS -> COMPOUND_COMET
      [] name = tokenAddress -> USDC_ADDRESS
      [] name = safeAddress -> safe

\* Interface.encodeFunctionData as the bytes it gives: the selector of the
\* function and one word for each argument
functionDataBytes(data, safe) ==
    LET args == data.args
        asset == AddressWord(AddressBytes(args[1], safe))
    IN  CASE data.abi = "ERC20_ABI" /\ data.fn = "approve" ->
                approveData(AddressBytes(args[1], safe), args[2])
          [] data.abi = "AAVE_POOL_ABI" /\ data.fn = "supply" ->
                supplyData(AddressBytes(args[1], safe), args[2],
                           AddressBytes(args[3], safe), 0)
          [] data.abi = "AAVE_POOL_ABI" /\ data.fn = "withdraw" ->
                encodeWithSelector(withdrawSelector,
                    <<asset, UintWord(args[2]),
                      AddressWord(AddressBytes(args[3], safe))>>)
          [] data.abi = "COMPOUND_COMET_ABI" /\ data.fn = "supply" ->
                encodeWithSelector(cometSupplySelector,
                                   <<asset, UintWord(args[2])>>)
          [] data.abi = "COMPOUND_COMET_ABI" /\ data.fn = "withdraw" ->
                encodeWithSelector(cometWithdrawSelector,
                                   <<asset, UintWord(args[2])>>)

\* the transactions of a plan as calls of a batch: target, value '0' and
\* calldata of each
PlanCalls(plan, safe) ==
    [i \in 1..Len(plan) |->
        Call(AddressBytes(plan[i].to, safe), 0,
             functionDataBytes(plan[i].data, safe))]

-----------------------------------------------------------------------------
\* The contracts the script calls.  Their code is not part of the
\* repository, which holds their interfaces
\* (src/foundry/src/interfaces/IMultiSendCallOnly.sol, IAavePool.sol); they
\* are modelled from the documentation of these interfaces.

\* the number a big-endian word stands for (numbers below 2^31)
FromBigEndian(bytes) ==
    LET k == Len(bytes)
        at(i) == IF k - i >= 1 THEN bytes[k - i] ELSE 0
    IN  at(0) + 256 * at(1) + 65536 * at(2) + 16777216 * at(3)

\* what the batch executor reads for a byte string that is no batch
Malformed == <<[operation |-> 255, to |-> <<>>, value |-> 0, data |-> <<>>]>>

RECURSIVE parseTransactions(_)
\* The records MultiSendCallOnly reads from the packed batch, first to last:
\* operation (1 byte), to (20 bytes), value (32 bytes), data length
\* (32 bytes), data.
parseTransactions(bytes) ==
    IF bytes = <<>> THEN <<>>
    ELSE IF Len(bytes) < 85 THEN Malformed
    ELSE LET dataLength == FromBigEndian(SubSeq(bytes, 54, 85))
         IN  IF Len(bytes) < 85 + dataLength THEN Malformed
             ELSE <<[operation |-> bytes[1],
                     to |-> SubSeq(bytes, 2, 21),
                     value |-> FromBigEndian(SubSeq(bytes, 22, 53)),
                     data |-> SubSeq(bytes, 86, 85 + dataLength)]>>
                  \o parseTransactions(SubSeq(bytes, 86 + dataLength,
                                              Len(bytes)))

\* the argument of multiSend(bytes) in its calldata; <<>> when the calldata
\* is not a call of multiSend
multiSendArgument(calldata) ==
    IF Len(calldata) < 68 \/ SubSeq(calldata, 1, 4) # multiSendSelector
    THEN <<>>
    ELSE LET length == FromBigEndian(SubSeq(calldata, 37, 68))
         IN  IF Len(calldata) < 68 + length THEN <<>>
             ELSE SubSeq(calldata, 69, 68 + length)

\* One inner call, made by sender, on chain state st: the state after it and
\* whether it succeeded.  st.pool is the address the Aave pool of the chain
\* is deployed at.  USDC.approve sets the allowance its sender gives
\* the spender; supply of the Aave pool and of Comet pulls the amount from
\* its sender under that allowance and credits the position; withdraw
\* takes the amount from the position of its sender and pays it out.  Each
\* may revert for reasons of its own (a paused token, a frozen or capped
\* reserve).
ExecuteCall(st, sender, call) ==
    LET selector == SubSeq(call.data, 1, 4)
        first == SubSeq(call.data, 17, 36)
        amount == FromBigEndian(SubSeq(call.data, 37, 68))
        fails == [ok |-> FALSE, st |-> st]
    IN  IF call.to = USDC_ADDRESS /\ selector = approveSelector
              /\ Len(call.data) = 68
        THEN IF st.approveReverts THEN fails
             ELSE IF sender = "safe" /\ first = st.pool
             THEN [ok |-> TRUE, st |-> [st EXCEPT !.allowance = amount]]
             ELSE IF sender = "safe" /\ first = COMPOUND_COMET
             THEN [ok |-> TRUE,
                   st |-> [st EXCEPT !.cometAllowance = amount]]
             ELSE [ok |-> TRUE, st |-> st]
        ELSE IF call.to = st.pool /\ selector = supplySelector
                   /\ Len(call.data) = 132
        THEN IF \/ st.supplyReverts
                \/ sender # "safe"
                \/ first # USDC_ADDRESS
                \/ amount = 0
                \/ st.safeUsdc < amount
                \/ st.allowance < amount
             THEN fails
             ELSE [ok |-> TRUE,
                   st |-> [st EXCEPT !.safeUsdc = @ - amount,
                                     !.allowance = @ - amount,
                                     !.aToken = @ + amount]]
        ELSE IF call.to = st.pool /\ selector = withdrawSelector
                   /\ Len(call.data) = 100
        THEN IF \/ st.withdrawReverts
                \/ sender # "safe"
                \/ first # USDC_ADDRESS
                \/ amount = 0
                \/ st.aToken < amount
             THEN fails
             ELSE [ok |-> TRUE,
                   st |-> [st EXCEPT
                              !.aToken = @ - amount,
                              !.safeUsdc =
                                  IF SubSeq(call.data, 81, 100) = st.safe
                                  THEN @ + amount ELSE @]]
        ELSE IF call.to = COMPOUND_COMET /\ selector = cometSupplySelector
                   /\ Len(call.data) = 68
        THEN IF \/ st.supplyReverts
                \/ sender # "safe"
                \/ first # USDC_ADDRESS
                \/ amount = 0
                \/ st.safeUsdc < amount
                \/ st.cometAllowance < amount
             THEN fails
             ELSE [ok |-> TRUE,
                   st |-> [st EXCEPT !.safeUsdc = @ - amount,
                                     !.cometAllowance = @ - amount,
                                     !.comet = @ + amount]]
        ELSE IF call.to = COMPOUND_COMET /\ selector = cometWithdrawSelector
                   /\ Len(call.data) = 68
        THEN IF \/ st.withdrawReverts
                \/ sender # "safe"
                \/ first # USDC_ADDRESS
                \/ amount = 0
                \/ st.comet < amount
             THEN fails
             ELSE [ok |-> TRUE,
                   st |-> [st EXCEPT !.comet = @ - amount,
                                     !.safeUsdc = @ + amount]]
        ELSE fails

RECURSIVE RunCalls(_, _, _)
\* the loop of multiSend: the calls one after the other, stopping at the
\* first that fails; applied counts the calls that went through, st is
\* the state they left
RunCalls(st, sender, calls) ==
    IF calls = <<>> THEN [ok |-> TRUE, st |-> st, applied |-> 0]
    ELSE IF Head(calls).operation # CALL
    THEN [ok |-> FALSE, st |-> st, applied |-> 0]
    ELSE LET first == ExecuteCall(st, sender, Head(calls))
         IN  IF ~first.ok THEN [ok |-> FALSE, st |-> st, applied |-> 0]
             ELSE LET rest == RunCalls(first.st, sender, Tail(calls))
                  IN  [rest EXCEPT !.applied = @ + 1]

\* mutant: a multiSend that keeps what the calls before the failing one did
multiSend_KeepPrefix(st, sender, bytes) ==
    LET run == RunCalls(st, sender, parseTransactions(bytes))
    IN  [ok |-> run.ok, st |-> run.st, applied |-> run.applied,
         ran |-> run.applied]

\* IMultiSendCallOnly.multiSend: "Sends multiple transactions and reverts
\* all if one fails."  The calls run one after the other on the state the
\* earlier ones left; a call that fails reverts the invocation, and with it
\* what the calls before it (ran counts them) had done.
multiSend(st, sender, bytes) ==
    LET run == RunCalls(st, sender, parseTransactions(bytes))
    IN  IF run.ok
        THEN [ok |-> TRUE, st |-> run.st, applied |-> run.applied,
              ran |-> run.applied]
        ELSE [ok |-> FALSE, st |-> st, applied |-> 0, ran |-> run.applied]

\* ISafe.execTransactionFromModule(to, value, data, operation), called by the
\* module: it reverts when the module is not enabled; otherwise it runs the
\* call and returns whether it succeeded.  With DELEGATECALL the code of
\* `to` runs as the Safe; with CALL it runs as itself.
execTransactionFromModule(st, submission) ==
    IF ~st.moduleEnabled
    THEN [reverted |-> TRUE, success |-> FALSE, st |-> st, applied |-> 0,
          ran |-> 0]
    ELSE IF submission.to # MULTISEND_CALL_ONLY
    THEN [reverted |-> FALSE, success |-> FALSE, st |-> st, applied |-> 0,
          ran |-> 0]
    ELSE LET sender == IF submission.operation = DELEGATECALL
                       THEN "safe" ELSE "multisend"
             run == multiSend(st, sender, multiSendArgument(submission.data))
         IN  [reverted |-> FALSE, success |-> run.ok, st |-> run.st,
              applied |-> run.applied, ran |-> run.ran]

-----------------------------------------------------------------------------
\* The state of the Safe module script

\* the Safe addresses SAFE_WALLET_ADDRESS is read as (0x1111.., 0x2222..)
SafeAddresses == {[i \in 1..20 |-> 17], [i \in 1..20 |-> 34]}

\* token amounts on the fork, in multiples of SUPPLY_AMOUNT
ForkAmounts == {k * SUPPLY_AMOUNT : k \in 0..MaxForkUnits}

\* The forks the script may start on: the Aave pool at the address the
\* script names, the Safe, its USDC and the whale's, the
\* allowances the Safe has given the Aave pool and Comet, its aTokens and
\* its Comet balance, whether the module is enabled, and how the contracts
\* of the fork behave (whether transfer fails, by returning false or by
\* reverting, whether approve, supply and withdraw revert, what
\* enableModule does).  The script's Safe holds no position.
Forks ==
    [pool : {AAVE_POOL},
     safe : SafeAddresses,
     safeUsdc : ForkAmounts,
     whaleUsdc : ForkAmounts,
     allowance : ForkAmounts,
     cometAllowance : {0},
     aToken : {0},
     comet : {0},
     moduleEnabled : BOOLEAN,
     transferFails : BOOLEAN,
     approveReverts : BOOLEAN,
     supplyReverts : BOOLEAN,
     withdrawReverts : {FALSE},
     enableModule : {"enables", "reverts", "ignores"}]

\* The chain states a batch may be executed on: the Safe holds USDC and
\* positions in both protocols, whatever the plan was built for.  The Aave
\* pool is at the address the plan builder names or at the one the script
\* names.
PlanForks ==
    [pool : {AAVE_POOL_ADDRESS_DEFAULT, AAVE_POOL},
     safe : {[i \in 1..20 |-> 17]},
     safeUsdc : ForkAmounts,
     whaleUsdc : {0},
     allowance : {0, SUPPLY_AMOUNT},
     cometAllowance : {0, SUPPLY_AMOUNT},
     aToken : ForkAmounts,
     comet : ForkAmounts,
     moduleEnabled : BOOLEAN,
     transferFails : {FALSE},
     approveReverts : BOOLEAN,
     supplyReverts : BOOLEAN,
     withdrawReverts : BOOLEAN,
     enableModule : {"enables"}]

\* no fork: the yield optimizer run does not use one
NoFork ==
    [pool |-> <<>>, safe |-> <<>>, safeUsdc |-> 0, whaleUsdc |-> 0,
     allowance |-> 0,
     cometAllowance |-> 0, aToken |-> 0, comet |-> 0,
     moduleEnabled |-> FALSE, transferFails |-> FALSE,
     approveReverts |-> FALSE, supplyReverts |-> FALSE,
     withdrawReverts |-> FALSE, enableModule |-> "enables"]

\* mutant: the batch executor called with a plain call
ModuleSubmission_Call(data) ==
    [to |-> MULTISEND_CALL_ONLY, value |-> 0, data |-> data,
     operation |-> CALL]

\* the arguments _executeViaModule gives execTransactionFromModule
ModuleSubmission(data) ==
    [to |-> MULTISEND_CALL_ONLY, value |-> 0, data |-> data,
     operation |-> DELEGATECALL]

\* execTransactionFromModule has not been called
NoExecution ==
    [called |-> FALSE, enabledAtCall |-> FALSE,
     submission |-> [to |-> <<>>, value |-> 0, data |-> <<>>,
                     operation |-> CALL],
     success |-> FALSE, before |-> NoFork, applied |-> 0, ran |-> 0]

-----------------------------------------------------------------------------
\* The batch encoder on call lists of any length

\* payloads of the calls: none, one byte, the two the script sends
Payloads ==
    {<<>>, <<171>>, approveData(AAVE_POOL, SUPPLY_AMOUNT),
     supplyData(USDC_ADDRESS, SUPPLY_AMOUNT, [i \in 1..20 |-> 17], 0)}

\* the calls of the model: target, value (0 as in the script, and a value of
\* more than one byte), payload
Calls ==
    {Call(to, value, data) : to \in {USDC_ADDRESS, AAVE_POOL},
                             value \in {0, 258}, data \in Payloads}

\* the call lists of up to MaxCalls calls, the empty one included
CallLists == UNION {[1..n -> Calls] : n \in 0..MaxCalls}

\* no call list is being encoded
NoCodec == [step |-> "none", calls |-> <<>>, bytes |-> <<>>, parsed |-> <<>>]

-----------------------------------------------------------------------------
\* The TriggerX job (createYieldOptimizerJob in
\* src/src/triggerx-yield-optimizer.ts, the monitor in src/api/monitor.ts)

\* A URL is a string cut into its parts; these are the values of
\* DYNAMIC_TRANSACTIONS_SCRIPT_URL in the model.
ScriptUrls ==
    {Undefined,
     [set |-> TRUE, str |-> <<>>],
     [set |-> TRUE, str |-> <<"example.com", "/script">>],
     [set |-> TRUE, str |-> <<"ftp", "://", "example.com", "/script">>],
     [set |-> TRUE, str |-> <<"http", "://", "localhost", ":3000">>],
     [set |-> TRUE, str |-> <<"https", "://", "127.0.0.1", "/script">>],
     [set |-> TRUE, str |-> <<"https", "://", "example.com", "/script">>]}

\* JS truthiness of an environment value
Truthy(env) == env.set /\ env.str # <<>>

\* url.startsWith('http')
startsWithHttp(url) == url.str # <<>> /\ url.str[1] \in {"http", "https"}

\* !url.includes('localhost') && !url.includes('127.0.0.1')
isPublicUrl(url) ==
    \A i \in 1..Len(url.str) : url.str[i] \notin {"localhost", "127.0.0.1"}

\* generatePlaceholderTransaction: one call of the Safe's nonce()
generatePlaceholderTransaction(safe) ==
    <<[to |-> safe, value |-> "0",
       data |-> encodeFunctionData("SAFE_ABI", "nonce", <<>>)]>>

\* generateRebalanceTransactions as one function of what it reads: the four
\* reads of compareYields, then the builder's two balances
generateRebalanceTransactions(apyA, apyC, balA, balC, newA, newC, minDiff) ==
    LET yd == YieldComparison(apyA, apyC, balA, balC, minDiff)
    IN  IF ~yd.shouldMove THEN <<>> ELSE RebalancePlan(yd, newA, newC)

\* mutant: the argType the job input is first built with is never set again
jobInput_FirstArgType(rebalanceTransactions, dynamicScriptUrl, minDiff) ==
    LET hasTransactions == Len(rebalanceTransactions) > 0
        base == [conditionType |-> "greater_than",
                 upperLimit |-> minDiff,
                 lowerLimit |-> 0,
                 argType |-> IF hasTransactions /\ ~Truthy(dynamicScriptUrl)
                             THEN "Static" ELSE "Dynamic",
                 safeTransactions |-> <<>>,
                 dynamicArgumentsScriptUrl |-> Undefined]
    IN  IF hasTransactions /\ ~Truthy(dynamicScriptUrl)
        THEN [base EXCEPT !.safeTransactions = rebalanceTransactions]
        ELSE IF /\ Truthy(dynamicScriptUrl)
                /\ startsWithHttp(dynamicScriptUrl)
                /\ isPublicUrl(dynamicScriptUrl)
        THEN [base EXCEPT !.dynamicArgumentsScriptUrl = dynamicScriptUrl]
        ELSE [base EXCEPT !.safeTransactions =
                              generatePlaceholderTransaction(safeAddress)]

\* the jobInput createYieldOptimizerJob gives createJob, from the
\* transactions generated, DYNAMIC_TRANSACTIONS_SCRIPT_URL and
\* config.minYieldDifference
jobInput(rebalanceTransactions, dynamicScriptUrl, minDiff) ==
    LET hasTransactions == Len(rebalanceTransactions) > 0
        base == [conditionType |-> "greater_than",
                 upperLimit |-> minDiff,
                 lowerLimit |-> 0,
                 argType |-> IF hasTransactions /\ ~Truthy(dynamicScriptUrl)
                             THEN "Static" ELSE "Dynamic",
                 safeTransactions |-> <<>>,
                 dynamicArgumentsScriptUrl |-> Undefined]
        placeholder ==
            [base EXCEPT !.safeTransactions =
                             generatePlaceholderTransaction(safeAddress),
                         !.argType = "Static"]
    IN  IF hasTransactions /\ ~Truthy(dynamicScriptUrl)
        THEN [base EXCEPT !.safeTransactions = rebalanceTransactions,
                          !.argType = "Static"]
        ELSE IF Truthy(dynamicScriptUrl) /\ startsWithHttp(dynamicScriptUrl)
        THEN IF isPublicUrl(dynamicScriptUrl)
             THEN [base EXCEPT !.dynamicArgumentsScriptUrl = dynamicScriptUrl,
                               !.argType = "Dynamic"]
             ELSE placeholder
        ELSE placeholder

\* the jobInput createForkTestJob gives createJob: always Static, with the
\* transactions generated or, when there are none, without safeTransactions;
\* it has no lowerLimit and no script URL
forkTestJobInput(rebalanceTransactions, upperLimit) ==
    [conditionType |-> "greater_than",
     upperLimit |-> upperLimit,
     argType |-> "Static",
     safeTransactions |-> rebalanceTransactions,
     dynamicArgumentsScriptUrl |-> Undefined]

\* the values of config.minYieldDifference createYieldOptimizerJob is called
\* with by a caller other than main()
ConfigThresholds == {Num(0), Num(1), Num(2)}

\* no job has been created
NoJob ==
    [conditionType |-> "none", upperLimit |-> NaN, lowerLimit |-> 0,
     argType |-> "none", safeTransactions |-> <<>>,
     dynamicArgumentsScriptUrl |-> Undefined]

\* no condition check has been made
NoTrigger ==
    [cycle |-> 0, checked |-> FALSE, value |-> 0, aaveAPY |-> 0,
     compoundAPY |-> 0, fired |-> FALSE, executed |-> "none", plan |-> <<>>,
     builtInCycle |-> 0, fresh |-> FALSE, better |-> "equal",
     holder |-> "none"]

\* The condition of the job as TriggerX evaluates it: conditionType
\* 'greater_than' with upperLimit, "Trigger when difference > this"
\* (triggerx-yield-optimizer.ts 267-268, 359; part_002 219-220, 251).
greaterThan(value, upperLimit) == (~upperLimit.nan) /\ value > upperLimit.val

\* The condition as the verification scripts test it:
\* [ "$VALUE" -ge "$THRESHOLD" ] (test-yield-optimizer.sh 52, 152;
\* run-triggerx-test.sh 276)
conditionMet(value, threshold) == (~threshold.nan) /\ value >= threshold.val

-----------------------------------------------------------------------------
\* The numbers of the rate conversions: bigint and number (double)

\* A bigint that is not negative: the limbs of the number in base Base, the
\* lowest first, without zero limbs at the top; zero is the empty sequence.
Base == 10000

RECURSIVE BNorm(_)
BNorm(a) ==
    IF a = <<>> THEN <<>>
    ELSE IF a[Len(a)] = 0 THEN BNorm(SubSeq(a, 1, Len(a) - 1))
    ELSE a

RECURSIVE BigInt(_)
BigInt(n) == IF n = 0 THEN <<>> ELSE <<n % Base>> \o BigInt(n \div Base)

\* the number written as its decimal digits in groups of four, highest first
BigLit(groups) == BNorm([i \in 1..Len(groups) |-> groups[Len(groups) + 1 - i]])

Limb(a, i) == IF i <= Len(a) THEN a[i] ELSE 0

RECURSIVE BAddFrom(_, _, _, _)
BAddFrom(a, b, i, carry) ==
    IF i > Len(a) /\ i > Len(b)
    THEN IF carry = 0 THEN <<>> ELSE <<carry>>
    ELSE <<(Limb(a, i) + Limb(b, i) + carry) % Base>>
         \o BAddFrom(a, b, i + 1, (Limb(a, i) + Limb(b, i) + carry) \div Base)

BAdd(a, b) == BAddFrom(a, b, 1, 0)

\* a - b for a >= b
RECURSIVE BSubFrom(_, _, _, _)
BSubFrom(a, b, i, borrow) ==
    IF i > Len(a) THEN <<>>
    ELSE <<(Limb(a, i) - Limb(b, i) - borrow + Base) % Base>>
         \o BSubFrom(a, b, i + 1,
                     IF Limb(a, i) - Limb(b, i) - borrow < 0 THEN 1 ELSE 0)

BSub(a, b) == BNorm(BSubFrom(a, b, 1, 0))

\* a * d for 0 <= d <= Base
RECURSIVE BMulSmallFrom(_, _, _, _)
BMulSmallFrom(a, d, i, carry) ==
    IF i > Len(a)
    THEN IF carry = 0 THEN <<>> ELSE <<carry>>
    ELSE <<(a[i] * d + carry) % Base>>
         \o BMulSmallFrom(a, d, i + 1, (a[i] * d + carry) \div Base)

BMulSmall(a, d) == IF d = 0 THEN <<>> ELSE BMulSmallFrom(a, d, 1, 0)

BShift(a) == IF a = <<>> THEN <<>> ELSE <<0>> \o a

RECURSIVE BMulFrom(_, _, _)
BMulFrom(a, b, i) ==
    IF i > Len(b) THEN <<>>
    ELSE BAdd(BMulSmall(a, b[i]), BShift(BMulFrom(a, b, i + 1)))

BMul(a, b) == BMulFrom(a, b, 1)

\* a < b
BLess(a, b) ==
    IF Len(a) # Len(b) THEN Len(a) < Len(b)
    ELSE \E i \in 1..Len(a) :
            /\ a[i] < b[i]
            /\ \A j \in (i + 1)..Len(a) : a[j] = b[j]

\* 2^k
RECURSIVE BPow2(_)
BPow2(k) == IF k < 13 THEN <<2 ^ k>> ELSE BMulSmall(BPow2(k - 13), 8192)

\* a * Base^i
BShiftBy(a, i) ==
    IF a = <<>> THEN <<>>
    ELSE [j \in 1..(Len(a) + i) |-> IF j <= i THEN 0 ELSE a[j - i]]

\* the largest d in lo..hi with d * scaled <= rem, by bisection
RECURSIVE BDivDigit(_, _, _, _)
BDivDigit(rem, scaled, lo, hi) ==
    IF lo = hi THEN lo
    ELSE IF BLess(rem, BMulSmall(scaled, (lo + hi + 1) \div 2))
    THEN BDivDigit(rem, scaled, lo, (lo + hi + 1) \div 2 - 1)
    ELSE BDivDigit(rem, scaled, (lo + hi + 1) \div 2, hi)

\* long division of rem by den > 0, from the limb i + 1 of the quotient
\* down; the quotient has Len(num) - Len(den) + 1 limbs at most
BDivPut(rest, d) == [q |-> rest.q \o <<d>>, r |-> rest.r]

RECURSIVE BDivFrom(_, _, _)
BDivNext(rem, den, i, d) ==
    BDivPut(BDivFrom(BSub(rem, BMulSmall(BShiftBy(den, i), d)), den, i - 1), d)

BDivFrom(rem, den, i) ==
    IF i < 0 THEN [q |-> <<>>, r |-> rem]
    ELSE BDivNext(rem, den, i, BDivDigit(rem, BShiftBy(den, i), 0, Base - 1))

\* quotient and remainder of num by den > 0
BDivNorm(d) == [q |-> BNorm(d.q), r |-> d.r]

BDivMod(num, den) == BDivNorm(BDivFrom(num, den, Len(num) - Len(den)))

BDiv(num, den) == BDivMod(num, den).q

\* the number of binary digits of a
BitLength(a) ==
    IF a = <<>> THEN 0
    ELSE CHOOSE k \in 1..(14 * Len(a)) :
            ~BLess(a, BPow2(k - 1)) /\ BLess(a, BPow2(k))

BIsOdd(a) == a # <<>> /\ a[1] % 2 = 1

\* A JavaScript number (an IEEE 754 double) that is not zero is m * 2^e
\* with 2^52 <= m < 2^53, Mantissa binary digits; zero has m = 0.  The
\* numbers of the conversions are never negative, infinite or subnormal.
Mantissa == 53

FZero == [m |-> <<>>, e |-> 0]

\* p / q scaled by 2^(-e), as quotient and remainder, with the divisor
FScaled(p, q, e) ==
    IF e >= 0
    THEN [d |-> BDivMod(p, BMul(q, BPow2(e))), den |-> BMul(q, BPow2(e))]
    ELSE [d |-> BDivMod(BMul(p, BPow2(-e)), q), den |-> q]

\* round to nearest, ties to even
FRoundAt(s, e) ==
    LET twice == BMulSmall(s.d.r, 2)
        up == BLess(s.den, twice) \/ (twice = s.den /\ BIsOdd(s.d.q))
        m == IF up THEN BAdd(s.d.q, <<1>>) ELSE s.d.q
    IN  IF m = BPow2(Mantissa) THEN [m |-> BPow2(Mantissa - 1), e |-> e + 1]
        ELSE [m |-> m, e |-> e]

FRoundFrom(p, q, e) ==
    IF BLess(FScaled(p, q, e).d.q, BPow2(Mantissa))
    THEN FRoundAt(FScaled(p, q, e), e)
    ELSE FRoundAt(FScaled(p, q, e + 1), e + 1)

\* the double nearest to the rational p / q, q > 0
FRound(p, q) ==
    IF p = <<>> THEN FZero
    ELSE FRoundFrom(p, q, BitLength(p) - BitLength(q) - Mantissa)

FExp(x, k) == IF x.m = <<>> THEN x ELSE [x EXCEPT !.e = x.e + k]

\* Number(n) of a bigint n >= 0; also the value of a numeric literal
ToNumber(n) == FRound(n, <<1>>)

FDiv(a, b) == FExp(FRound(a.m, b.m), a.e - b.e)

FMul(a, b) == FExp(FRound(BMul(a.m, b.m), <<1>>), a.e + b.e)

\* Math.floor of a double >= 0, as a natural number
MathFloor(x) ==
    IF x.e >= 0 THEN BMul(x.m, BPow2(x.e)) ELSE BDiv(x.m, BPow2(-x.e))

\* x, then F of its value: the statements of the code one after the other
Then(x, F(_)) == CHOOSE y \in {F(v) : v \in {x}} : TRUE

\* the literals 1e27, 1e18 and 10000
F1e27 == ToNumber(BigLit(<<1000, 0, 0, 0, 0, 0, 0>>))

F1e18 == ToNumber(BigLit(<<100, 0, 0, 0, 0>>))

F10000 == ToNumber(BigInt(10000))

\* Math.floor(Number(liquidityRate) / 1e27 * 10000), after the check
\* !liquidityRate || liquidityRate === 0n; the result as a bigint
aaveBasisPoints(liquidityRate) ==
    IF liquidityRate = <<>> THEN <<>>
    ELSE Then(Then(Then(ToNumber(liquidityRate),
                        LAMBDA n : FDiv(n, F1e27)),
                   LAMBDA x : FMul(x, F10000)),
              MathFloor)

\* 365.25 * 24 * 60 * 60
secondsPerYear ==
    FMul(FMul(FMul(FRound(BigInt(1461), BigInt(4)), ToNumber(BigInt(24))),
              ToNumber(BigInt(60))),
         ToNumber(BigInt(60)))

\* ratePerSecond = Number(supplyRate) / 1e18; apy = ratePerSecond *
\* secondsPerYear; Math.floor(apy * 10000)
compoundBasisPoints(supplyRate) ==
    Then(Then(Then(Then(ToNumber(supplyRate),
                        LAMBDA n : FDiv(n, F1e18)),
                   LAMBDA ratePerSecond : FMul(ratePerSecond, secondsPerYear)),
              LAMBDA apy : FMul(apy, F10000)),
         MathFloor)

\* liquidity rates at, just below and just above a whole number of basis
\* points (a basis point is 10^23 in RAY)
LiquidityRates ==
    {BAdd(BMul(BigInt(k), BigLit(<<1000, 0, 0, 0, 0, 0>>)), BigInt(d)) :
        k \in 0..MaxBp, d \in 0..1}
    \cup {BSub(BMul(BigInt(k), BigLit(<<1000, 0, 0, 0, 0, 0>>)), <<1>>) :
            k \in 1..MaxBp}

\* supply rates per second: multiples of 10^9 (3.16 % a year) and the rate
\* next to them, a rate of 494172560651 and the largest uint64
SupplyRates ==
    {BAdd(BMul(BigInt(k), BigInt(1000000000)), BigInt(d)) :
        k \in 0..MaxBp, d \in 0..1}
    \cup {BigLit(<<4941, 7256, 651>>), BSub(BPow2(64), <<1>>)}

-----------------------------------------------------------------------------
\* The monitor endpoint (handler in src/api/monitor.ts) and Promise.all

\* the body of the handler's 200 response, without its timestamp
MonitorResponse(aaveAPY, compoundAPY) ==
    [value |-> MathAbs(aaveAPY - compoundAPY),
     metadata |-> [aaveAPY |-> aaveAPY,
                   compoundAPY |-> compoundAPY,
                   difference |-> MathAbs(aaveAPY - compoundAPY),
                   betterProtocol |-> IF aaveAPY > compoundAPY THEN "aave"
                                      ELSE "compound",
                   network |-> "arbitrum"]]

\* the request methods of the model; POST stands for every method that is
\* neither GET nor OPTIONS
Methods == {"GET", "OPTIONS", "POST"}

\* res.status(status).json(body)
JsonResponse(status, body) == [status |-> status, body |-> <<body>>]

\* res.status(status).end(): no body
EndResponse(status) == [status |-> status, body |-> <<>>]

\* the handler has not answered
NoResponse == [status |-> 0, body |-> <<>>]

\* the handler answered a GET: 200 with the body of MonitorResponse
Answered == response.status = 200 /\ response.body # <<>>

\* getAaveAPY of the monitor.  data is the response of getReserveData (val:
\* the basis points the conversion of its liquidityRate gives; 0 for a
\* liquidityRate of 0); the catch returns 0 for every error.
MonitorAaveAPY(data) ==
    IF data.err # "none" THEN Returns(0) ELSE Returns(data.val)

\* getCompoundAPY of the monitor: getUtilization, then getSupplyRate (val:
\* the basis points the conversion of the supply rate gives); the catch
\* returns 0 for every error.
MonitorCompoundAPY(utilization, supplyRate) ==
    IF utilization.err # "none" THEN Returns(0)
    ELSE IF supplyRate.err # "none" THEN Returns(0)
    ELSE Returns(supplyRate.val)

\* the promises compareYields gives Promise.all, in the order it gives them
compareYieldsReads ==
    <<"aaveAPY", "compoundAPY", "aaveBalance", "compoundBalance">>

\* the promises the handler gives Promise.all
handlerReads == <<"aaveAPY", "compoundAPY">>

\* mutant: the results in the order the promises settled
PromiseAll_SettleOrder(promises, settled, settleOrder) ==
    [i \in 1..Len(promises) |-> settled[settleOrder[i]]]

\* Promise.all resolves with the values in the order of the promises it
\* was given, whatever the order they settled in
PromiseAll(promises, settled, settleOrder) ==
    [i \in 1..Len(promises) |-> settled[promises[i]]]

\* What the contracts hold at a block: whether the asset has an aToken (1)
\* or the zero address (0), the rate getReserveData gives, whether code is
\* deployed at the Comet address (1) or not (0), the supply rate, and the
\* two balances.  An asset without aToken has no rate and no aToken balance,
\* an address without code no rate and no balance.
Blocks ==
    {b \in [aToken : {0, 1}, reserveData : Rates, code : {0, 1},
            supplyRate : Rates, aTokenBalance : Balances,
            cometBalance : Balances] :
        /\ b.aToken = 0 => (b.reserveData = 0 /\ b.aTokenBalance = 0)
        /\ b.code = 0 => (b.supplyRate = 0 /\ b.cometBalance = 0)}

\* no block is looked at
NoChain ==
    [aToken |-> 0, reserveData |-> 0, code |-> 0, supplyRate |-> 0,
     aTokenBalance |-> 0, cometBalance |-> 0]

\* what the contract read call of adapter r gives on block b when the
\* request goes through: a call to an address without code gives the empty
\* response
BlockAnswer(b, r, call) ==
    CASE call = "getReserveTokensAddresses" -> Ok(b.aToken)
      [] call = "getReserveData" -> Ok(b.reserveData)
      [] call = "getCode" -> Ok(b.code)
      [] call = "getUtilization" ->
            IF b.code = 1 THEN Ok(0) ELSE Err("BAD_DATA_EMPTY")
      [] call = "getSupplyRate" ->
            IF b.code = 1 THEN Ok(b.supplyRate) ELSE Err("BAD_DATA_EMPTY")
      [] call = "balanceOf" /\ r = "aaveBalance" -> Ok(b.aTokenBalance)
      [] call = "balanceOf" /\ r = "compoundBalance" ->
            IF b.code = 1 THEN Ok(b.cometBalance) ELSE Err("BAD_DATA_EMPTY")

\* the responses a read can get on block b: what the block gives, or the
\* error of a request that fails
Answers(b, r, call) == {BlockAnswer(b, r, call)} \cup {Err(e) : e \in ErrorKinds}

\* what adapter r of who (compareYields or the handler) returns on block b
\* when every request goes through
BlockResult(who, r, b) ==
    LET at(call) == BlockAnswer(b, r, call)
    IN  CASE who = "handler" /\ r = "aaveAPY" ->
                MonitorAaveAPY(at("getReserveData")).value
          [] who = "handler" /\ r = "compoundAPY" ->
                MonitorCompoundAPY(at("getUtilization"),
                                   at("getSupplyRate")).value
          [] who # "handler" /\ r = "aaveAPY" ->
                AaveAPYAdapter(at("getReserveTokensAddresses"),
                               at("getReserveData")).value
          [] who # "handler" /\ r = "compoundAPY" ->
                CompoundAPYAdapter(at("getCode"), at("getUtilization"),
                                   at("getSupplyRate")).value
          [] who # "handler" /\ r = "aaveBalance" ->
                AaveBalanceAdapter(at("getReserveTokensAddresses"),
                                   at("balanceOf")).value
          [] who # "handler" /\ r = "compoundBalance" ->
                CompoundBalanceAdapter(at("balanceOf")).value

\* no conversion is looked at
NoConversion ==
    [adapter |-> "none", who |-> "none", rate |-> <<>>, utilization |-> 0,
     stops |-> "none", awaiting |-> "none", read |-> -1, calls |-> <<>>,
     done |-> FALSE, bp |-> <<>>]

-----------------------------------------------------------------------------
\* The run

Reads == {"aaveAPY", "compoundAPY", "aaveBalance", "compoundBalance"}

\* the builder's own two reads
BuilderReads == {"builderAaveBalance", "builderCompoundBalance"}

NoOutcome == [r \in Reads \cup BuilderReads |-> "none"]

\* the contract reads the adapters of compareYields await, in their order
\* (aave.ts 42, 68, 134, 188; part_001 42, 57, 64, 99)
AdapterCalls ==
    [aaveAPY |-> <<"getReserveTokensAddresses", "getReserveData">>,
     compoundAPY |-> <<"getCode", "getUtilization", "getSupplyRate">>,
     aaveBalance |-> <<"getReserveTokensAddresses", "balanceOf">>,
     compoundBalance |-> <<"balanceOf">>]

\* the contract reads the two adapters of the monitor await (monitor.ts 50,
\* 77, 78)
HandlerCalls ==
    [aaveAPY |-> <<"getReserveData">>,
     compoundAPY |-> <<"getUtilization", "getSupplyRate">>]

\* the contract read an adapter awaits first
FirstCall == [r \in Reads |-> AdapterCalls[r][1]]

\* the read that follows call in calls, "none" after the last
CallAfter(calls, call) ==
    LET i == CHOOSE j \in 1..Len(calls) : calls[j] = call
    IN  IF i < Len(calls) THEN calls[i + 1] ELSE "none"

\* no adapter is running
NoAwait == [r \in Reads \cup BuilderReads |-> "none"]

\* the response to call is one the adapter goes on with: a value, and for
\* the aToken address and the code not the empty one
Usable(call, resp) ==
    /\ resp.err = "none"
    /\ call \in {"getReserveTokensAddresses", "getCode"} => resp.val # 0

\* how adapter r of who ends when it returns on the response resp to call:
\* the reads before call gave what it goes on with, the reads after it are
\* not made
AdapterReturn(who, r, call, resp) ==
    CASE who = "handler" /\ r = "aaveAPY" -> MonitorAaveAPY(resp)
      [] who = "handler" /\ r = "compoundAPY" ->
            IF call = "getUtilization" THEN MonitorCompoundAPY(resp, NotRead)
            ELSE MonitorCompoundAPY(Ok(0), resp)
      [] who # "handler" /\ r = "aaveAPY" ->
            IF call = "getReserveTokensAddresses"
            THEN AaveAPYAdapter(resp, NotRead)
            ELSE AaveAPYAdapter(Ok(1), resp)
      [] who # "handler" /\ r = "compoundAPY" ->
            IF call = "getCode"
            THEN CompoundAPYAdapter(resp, NotRead, NotRead)
            ELSE IF call = "getUtilization"
            THEN CompoundAPYAdapter(Ok(1), resp, NotRead)
            ELSE CompoundAPYAdapter(Ok(1), Ok(0), resp)
      [] who # "handler" /\ r = "aaveBalance" ->
            IF call = "getReserveTokensAddresses"
            THEN AaveBalanceAdapter(resp, NotRead)
            ELSE AaveBalanceAdapter(Ok(1), resp)
      [] who # "handler" /\ r = "compoundBalance" ->
            CompoundBalanceAdapter(resp)

\* The contract read adapter r of who awaits inside Promise.all is answered
\* with resp: the adapter issues its next read, or, on a response it does
\* not go on with and after its last read, returns and settles.
Settle(who, r, resp) ==
    LET call == awaiting[r]
        calls == IF who = "handler" THEN HandlerCalls[r] ELSE AdapterCalls[r]
        next == IF Usable(call, resp) THEN CallAfter(calls, call) ELSE "none"
    IN  /\ awaiting' = [awaiting EXCEPT ![r] = next]
        /\ IF next # "none"
           THEN UNCHANGED <<pending, fetched, order>>
           ELSE /\ pending' = pending \ {r}
                /\ fetched' = [fetched EXCEPT ![r] =
                                  AdapterReturn(who, r, call, resp).value]
                /\ order' = Append(order, r)

\* The handler up to its await: OPTIONS is answered 200 without body, every
\* method but GET 405; on GET its two adapters are called inside
\* Promise.all and each issues its first read.
handlerCall(method, reading, responded) ==
    IF method = "OPTIONS"
    THEN /\ pc' = responded
         /\ response' = EndResponse(200)
         /\ UNCHANGED <<pending, awaiting>>
    ELSE IF method # "GET"
    THEN /\ pc' = responded
         /\ response' = JsonResponse(405, [error |-> "Method not allowed"])
         /\ UNCHANGED <<pending, awaiting>>
    ELSE /\ pc' = reading
         /\ pending' = {"aaveAPY", "compoundAPY"}
         /\ awaiting' = [r \in Reads \cup BuilderReads |->
                            IF r \in DOMAIN HandlerCalls
                            THEN HandlerCalls[r][1] ELSE "none"]
         /\ UNCHANGED response

\* Promise.all has resolved: the handler answers 200 with its body
handlerReturn(responded) ==
    /\ pending = {}
    /\ LET results == PromiseAll(handlerReads, fetched, order)
       IN  response' = JsonResponse(200, MonitorResponse(results[1],
                                                         results[2]))
    /\ pc' = responded

Callers == {"optimizer", "forkTest"}

NoYieldData ==
    [aaveAPY |-> 0, compoundAPY |-> 0, difference |-> 0,
     betterProtocol |-> "equal", shouldMove |-> FALSE,
     currentProtocol |-> "none"]

Init ==
    /\ pc = "idle"
    /\ caller = "optimizer"
    /\ minYieldDifference = NaN
    /\ pending = {}
    /\ fetched = [r \in Reads |-> 0]
    /\ yieldData = NoYieldData
    /\ aaveBalance = 0
    /\ compoundBalance = 0
    /\ transactions = <<>>
    /\ readOutcome = NoOutcome
    /\ awaiting = NoAwait
    /\ fork = NoFork
    /\ multiSendData = <<>>
    /\ execution = NoExecution
    /\ codec = NoCodec
    /\ job = NoJob
    /\ trigger = NoTrigger
    /\ chain = NoChain
    /\ order = <<>>
    /\ response = NoResponse
    /\ conversion = NoConversion

\* compareYields up to its await: it throws when RPC_URL, TOKEN_ADDRESS or
\* SAFE_WALLET_ADDRESS is missing, and otherwise parses the threshold and
\* calls its four adapters inside Promise.all: each runs up to its first
\* await, so the first contract read of every adapter is issued.
compareYieldsCall ==
    \E required \in BOOLEAN, env \in EnvValues :
        IF ~required
        THEN /\ pc' = "threw"
             /\ UNCHANGED <<minYieldDifference, pending, awaiting>>
        ELSE /\ pc' = "reading"
             /\ minYieldDifference' = parseInt(OrElse(env, <<"5", "0">>))
             /\ pending' = Reads
             /\ awaiting' = [r \in Reads \cup BuilderReads |->
                                IF r \in Reads THEN FirstCall[r] ELSE "none"]

\* A builder is called and calls compareYields.
compareYieldsStart ==
    /\ pc = "idle"
    /\ \E who \in Callers : caller' = who
    /\ compareYieldsCall
    /\ UNCHANGED <<fetched, yieldData, aaveBalance, compoundBalance,
                   transactions, readOutcome>>
    /\ UNCHANGED <<scriptVars, codec, jobVars, cycleVars,
                   conversion>>

\* one read of the Promise.all settles: a resolved read stores its value, a
\* rejected one rejects the Promise.all and compareYields throws
Resolve(r, res, class) ==
    /\ pc = "reading"
    /\ r \in pending
    /\ readOutcome' = [readOutcome EXCEPT ![r] = class]
    /\ awaiting' = [awaiting EXCEPT ![r] = "none"]
    /\ IF res.rejects
       THEN /\ pc' = "threw"
            /\ UNCHANGED <<pending, fetched>>
       ELSE /\ pending' = pending \ {r}
            /\ fetched' = [fetched EXCEPT ![r] = res.value]
            /\ UNCHANGED pc
    /\ UNCHANGED <<caller, minYieldDifference, yieldData, aaveBalance,
                   compoundBalance, transactions>>
    /\ UNCHANGED <<scriptVars, codec, jobVars, cycleVars,
                   conversion>>

\* the contract read an adapter awaited gave a value the adapter goes on
\* with: it issues its next read and awaits that
AwaitNext(r, call) ==
    /\ awaiting' = [awaiting EXCEPT ![r] = call]
    /\ UNCHANGED <<pc, caller, minYieldDifference, pending, fetched,
                   yieldData, aaveBalance, compoundBalance, transactions,
                   readOutcome>>
    /\ UNCHANGED <<scriptVars, codec, jobVars, cycleVars,
                   conversion>>

\* The four adapters of compareYields, one step for each of their awaits,
\* each on the response the chain gives to the awaited contract read at that
\* moment.  A read the adapter does not get to has no response (NotRead).
getAaveAPY ==
    /\ pc = "reading"
    /\ \/ /\ awaiting["aaveAPY"] = "getReserveTokensAddresses"
          /\ \E tokens \in Responses({0, 1}) :
                IF tokens = Ok(1)
                THEN AwaitNext("aaveAPY", "getReserveData")
                ELSE Resolve("aaveAPY", AaveAPYAdapter(tokens, NotRead),
                             AaveReadClass(tokens, NotRead))
       \/ /\ awaiting["aaveAPY"] = "getReserveData"
          /\ \E data \in Responses(Rates) :
                Resolve("aaveAPY", AaveAPYAdapter(Ok(1), data),
                        AaveReadClass(Ok(1), data))

getCompoundAPY ==
    /\ pc = "reading"
    /\ \/ /\ awaiting["compoundAPY"] = "getCode"
          /\ \E code \in Responses({0, 1}) :
                IF code = Ok(1)
                THEN AwaitNext("compoundAPY", "getUtilization")
                ELSE Resolve("compoundAPY",
                             CompoundAPYAdapter(code, NotRead, NotRead),
                             CompoundAPYClass(code, NotRead, NotRead))
       \/ /\ awaiting["compoundAPY"] = "getUtilization"
          /\ \E utilization \in Responses({0}) :
                IF utilization = Ok(0)
                THEN AwaitNext("compoundAPY", "getSupplyRate")
                ELSE Resolve("compoundAPY",
                             CompoundAPYAdapter(Ok(1), utilization, NotRead),
                             CompoundAPYClass(Ok(1), utilization, NotRead))
       \/ /\ awaiting["compoundAPY"] = "getSupplyRate"
          /\ \E supplyRate \in Responses(Rates) :
                Resolve("compoundAPY",
                        CompoundAPYAdapter(Ok(1), Ok(0), supplyRate),
                        CompoundAPYClass(Ok(1), Ok(0), supplyRate))

getAaveBalance ==
    /\ pc = "reading"
    /\ \/ /\ awaiting["aaveBalance"] = "getReserveTokensAddresses"
          /\ \E tokens \in Responses({0, 1}) :
                IF tokens = Ok(1)
                THEN AwaitNext("aaveBalance", "balanceOf")
                ELSE Resolve("aaveBalance",
                             AaveBalanceAdapter(tokens, NotRead),
                             AaveReadClass(tokens, NotRead))
       \/ /\ awaiting["aaveBalance"] = "balanceOf"
          /\ \E balance \in Responses(Balances) :
                Resolve("aaveBalance", AaveBalanceAdapter(Ok(1), balance),
                        AaveReadClass(Ok(1), balance))

getCompoundBalance ==
    /\ pc = "reading"
    /\ awaiting["compoundBalance"] = "balanceOf"
    /\ \E balance \in Responses(Balances) :
        Resolve("compoundBalance", CompoundBalanceAdapter(balance),
                CompoundBalanceClass(balance))

\* all four reads are in: compareYields computes and returns the comparison
compareYieldsReturn ==
    /\ pc = "reading"
    /\ pending = {}
    /\ yieldData' = YieldComparison(fetched["aaveAPY"], fetched["compoundAPY"],
                                    fetched["aaveBalance"],
                                    fetched["compoundBalance"],
                                    minYieldDifference)
    /\ pc' = "decided"
    /\ UNCHANGED <<caller, minYieldDifference, pending, fetched, aaveBalance,
                   compoundBalance, transactions, readOutcome, awaiting>>
    /\ UNCHANGED <<scriptVars, codec, jobVars, cycleVars,
                   conversion>>

\* the builder looks at shouldMove: no move returns the empty list, a move
\* goes on to await import('./contracts/aave')
CheckShouldMove ==
    /\ pc = "decided"
    /\ IF ~yieldData.shouldMove
       THEN /\ transactions' = <<>>
            /\ pc' = "returned"
       ELSE /\ pc' = "importAave"
            /\ UNCHANGED transactions
    /\ UNCHANGED <<caller, minYieldDifference, pending, fetched, yieldData,
                   aaveBalance, compoundBalance, readOutcome, awaiting>>
    /\ UNCHANGED <<scriptVars, codec, jobVars, cycleVars,
                   conversion>>

\* the import of ./contracts/aave resolves (compareYields has loaded the
\* module already); the builder awaits import('./contracts/compound')
ImportAave ==
    /\ pc = "importAave"
    /\ pc' = "importCompound"
    /\ UNCHANGED <<runVars, scriptVars, codec, jobVars, cycleVars,
                   conversion>>

\* the import of ./contracts/compound resolves; the builder calls its own
\* getAaveBalance, which issues its first read
ImportCompound ==
    /\ pc = "importCompound"
    /\ pc' = "awaitAaveBalance"
    /\ awaiting' = [awaiting EXCEPT !["builderAaveBalance"] =
                                        "getReserveTokensAddresses"]
    /\ UNCHANGED <<caller, minYieldDifference, pending, fetched, yieldData,
                   aaveBalance, compoundBalance, transactions, readOutcome>>
    /\ UNCHANGED <<scriptVars, codec, jobVars, cycleVars,
                   conversion>>

\* the builder's own getAaveBalance settles on the responses of its reads;
\* the builder then calls getCompoundBalance, which issues its read
BuilderAaveBalanceOn(tokens, balance) ==
    LET res == AaveBalanceAdapter(tokens, balance)
    IN  /\ readOutcome' = [readOutcome EXCEPT !["builderAaveBalance"] =
                                           AaveReadClass(tokens, balance)]
        /\ IF res.rejects
           THEN /\ pc' = "threw"
                /\ awaiting' = [awaiting EXCEPT
                                   !["builderAaveBalance"] = "none"]
                /\ UNCHANGED aaveBalance
           ELSE /\ pc' = "awaitCompoundBalance"
                /\ awaiting' = [awaiting EXCEPT
                                   !["builderAaveBalance"] = "none",
                                   !["builderCompoundBalance"] = "balanceOf"]
                /\ aaveBalance' = res.value

\* one step for each of the two awaits of the builder's getAaveBalance
BuilderAaveBalance ==
    /\ pc = "awaitAaveBalance"
    /\ \/ /\ awaiting["builderAaveBalance"] = "getReserveTokensAddresses"
          /\ \E tokens \in Responses({0, 1}) :
                IF tokens = Ok(1)
                THEN /\ awaiting' = [awaiting EXCEPT
                                        !["builderAaveBalance"] = "balanceOf"]
                     /\ UNCHANGED <<pc, aaveBalance, readOutcome>>
                ELSE BuilderAaveBalanceOn(tokens, NotRead)
       \/ /\ awaiting["builderAaveBalance"] = "balanceOf"
          /\ \E balance \in Responses(Balances) :
                BuilderAaveBalanceOn(Ok(1), balance)
    /\ UNCHANGED <<caller, minYieldDifference, pending, fetched, yieldData,
                   compoundBalance, transactions>>
    /\ UNCHANGED <<scriptVars, codec, jobVars, cycleVars,
                   conversion>>

\* the builder's own getCompoundBalance resolves; the rest of the builder runs
BuilderCompoundBalance ==
    /\ pc = "awaitCompoundBalance"
    /\ awaiting["builderCompoundBalance"] = "balanceOf"
    /\ awaiting' = [awaiting EXCEPT !["builderCompoundBalance"] = "none"]
    /\ \E balance \in Responses(Balances) :
        LET res == CompoundBalanceAdapter(balance)
        IN  /\ readOutcome' =
                  [readOutcome EXCEPT !["builderCompoundBalance"] =
                                          CompoundBalanceClass(balance)]
            /\ IF res.rejects
               THEN /\ pc' = "threw"
                    /\ UNCHANGED <<compoundBalance, transactions>>
               ELSE /\ pc' = "returned"
                    /\ compoundBalance' = res.value
                    /\ transactions' =
                          IF caller = "optimizer"
                          THEN RebalancePlan(yieldData, aaveBalance, res.value)
                          ELSE TestRebalancePlan(yieldData, aaveBalance,
                                                 res.value)
    /\ UNCHANGED <<caller, minYieldDifference, pending, fetched, yieldData,
                   aaveBalance>>
    /\ UNCHANGED <<scriptVars, codec, jobVars, cycleVars,
                   conversion>>

\* the run is over; the next one starts from scratch
Finish ==
    /\ pc \in {"returned", "threw"}
    /\ pc' = "idle"
    /\ caller' = "optimizer"
    /\ minYieldDifference' = NaN
    /\ pending' = {}
    /\ fetched' = [r \in Reads |-> 0]
    /\ yieldData' = NoYieldData
    /\ aaveBalance' = 0
    /\ compoundBalance' = 0
    /\ transactions' = <<>>
    /\ readOutcome' = NoOutcome
    /\ awaiting' = NoAwait
    /\ UNCHANGED <<scriptVars, codec, jobVars, cycleVars,
                   conversion>>

Next ==
    \/ compareYieldsStart
    \/ getAaveAPY
    \/ getCompoundAPY
    \/ getAaveBalance
    \/ getCompoundBalance
    \/ compareYieldsReturn
    \/ CheckShouldMove
    \/ ImportAave
    \/ ImportCompound
    \/ BuilderAaveBalance
    \/ BuilderCompoundBalance
    \/ Finish

Spec == Init /\ [][Next]_vars

-----------------------------------------------------------------------------
\* The Safe module script: run() of SafeModuleAaveSupply.s.sol, one action per
\* function it calls.  A failed require and a reverting call end the script
\* ("reverted"); the script has no step after its end.

InitScript ==
    /\ pc = "run"
    /\ caller = "optimizer"
    /\ minYieldDifference = NaN
    /\ pending = {}
    /\ fetched = [r \in Reads |-> 0]
    /\ yieldData = NoYieldData
    /\ aaveBalance = 0
    /\ compoundBalance = 0
    /\ transactions = <<>>
    /\ readOutcome = NoOutcome
    /\ awaiting = NoAwait
    /\ fork \in Forks
    /\ multiSendData = <<>>
    /\ execution = NoExecution
    /\ codec = NoCodec
    /\ job = NoJob
    /\ trigger = NoTrigger
    /\ chain = NoChain
    /\ order = <<>>
    /\ response = NoResponse
    /\ conversion = NoConversion

\* run() up to _setupAccounts: vm.envAddress reverts when SAFE_WALLET_ADDRESS
\* is not set; the ETH vm.deal hands out plays no part afterwards
_setupAccounts ==
    /\ pc = "run"
    /\ \E envSet \in BOOLEAN :
        pc' = IF envSet THEN "fundSafe" ELSE "reverted"
    /\ UNCHANGED <<runVars, scriptVars, codec, jobVars, cycleVars,
                   conversion>>

\* require(whaleBalance >= SUPPLY_AMOUNT), then as the whale
\* require(USDC.transfer(SAFE_WALLET_ADDRESS, SUPPLY_AMOUNT)): a transfer
\* that returns false or reverts reverts the script
_fundSafeWithUsdc ==
    /\ pc = "fundSafe"
    /\ IF fork.whaleUsdc >= SUPPLY_AMOUNT /\ ~fork.transferFails
       THEN /\ fork' = [fork EXCEPT !.whaleUsdc = @ - SUPPLY_AMOUNT,
                                    !.safeUsdc = @ + SUPPLY_AMOUNT]
            /\ pc' = "ensureModule"
       ELSE /\ pc' = "reverted"
            /\ UNCHANGED fork
    /\ UNCHANGED <<runVars, multiSendData, execution, codec, jobVars, cycleVars,
                   conversion>>

\* mutant: _ensureModuleEnabled without its require
_ensureModuleEnabled_NoRequire ==
    /\ pc = "ensureModule"
    /\ IF fork.moduleEnabled \/ fork.enableModule = "ignores"
       THEN /\ pc' = "build"
            /\ UNCHANGED fork
       ELSE IF fork.enableModule = "reverts"
       THEN /\ pc' = "reverted"
            /\ UNCHANGED fork
       ELSE /\ pc' = "build"
            /\ fork' = [fork EXCEPT !.moduleEnabled = TRUE]
    /\ UNCHANGED <<runVars, multiSendData, execution, codec, jobVars, cycleVars,
                   conversion>>

\* isModuleEnabled; when it is false, enableModule as the Safe, then
\* isModuleEnabled again and require(isEnabled)
_ensureModuleEnabled ==
    /\ pc = "ensureModule"
    /\ IF fork.moduleEnabled
       THEN /\ pc' = "build"
            /\ UNCHANGED fork
       ELSE IF fork.enableModule = "reverts"
       THEN /\ pc' = "reverted"
            /\ UNCHANGED fork
       ELSE LET after == [fork EXCEPT !.moduleEnabled =
                                         (fork.enableModule = "enables")]
            IN  /\ fork' = after
                /\ pc' = IF after.moduleEnabled THEN "build" ELSE "reverted"
    /\ UNCHANGED <<runVars, multiSendData, execution, codec, jobVars, cycleVars,
                   conversion>>

_buildAaveSupplyMultiSend ==
    /\ pc = "build"
    /\ multiSendData' = buildAaveSupplyMultiSend(fork.safe)
    /\ pc' = "execute"
    /\ UNCHANGED <<runVars, fork, execution, codec, jobVars, cycleVars,
                   conversion>>

\* mutant: _executeViaModule without require(success)
_executeViaModule_NoRequire ==
    /\ pc = "execute"
    /\ LET submission == ModuleSubmission(multiSendData)
           result == execTransactionFromModule(fork, submission)
       IN  /\ execution' = [called |-> TRUE,
                            enabledAtCall |-> fork.moduleEnabled,
                            submission |-> submission,
                            success |-> result.success,
                            before |-> fork,
                            applied |-> result.applied,
                            ran |-> result.ran]
           /\ fork' = result.st
           /\ pc' = IF result.reverted THEN "reverted" ELSE "logFinal"
    /\ UNCHANGED <<runVars, multiSendData, codec, jobVars, cycleVars,
                   conversion>>

\* as the module, execTransactionFromModule(MULTISEND_CALL_ONLY, 0,
\* multiSendCalldata, DELEGATECALL), then require(success)
_executeViaModule ==
    /\ pc = "execute"
    /\ LET submission == ModuleSubmission(multiSendData)
           result == execTransactionFromModule(fork, submission)
       IN  /\ execution' = [called |-> TRUE,
                            enabledAtCall |-> fork.moduleEnabled,
                            submission |-> submission,
                            success |-> result.success,
                            before |-> fork,
                            applied |-> result.applied,
                            ran |-> result.ran]
           /\ fork' = result.st
           /\ pc' = IF result.reverted \/ ~result.success
                    THEN "reverted" ELSE "logFinal"
    /\ UNCHANGED <<runVars, multiSendData, codec, jobVars, cycleVars,
                   conversion>>

_logFinalState ==
    /\ pc = "logFinal"
    /\ pc' = "completed"
    /\ UNCHANGED <<runVars, scriptVars, codec, jobVars, cycleVars,
                   conversion>>

NextScript ==
    \/ _setupAccounts
    \/ _fundSafeWithUsdc
    \/ _ensureModuleEnabled
    \/ _buildAaveSupplyMultiSend
    \/ _executeViaModule
    \/ _logFinalState

SpecScript == InitScript /\ [][NextScript]_vars

-----------------------------------------------------------------------------
\* The execution of a batch through the module.  The repository executes
\* one batch itself, the script's approve and supply; the plan of
\* generateRebalanceTransactions is handed to TriggerX as safeTransactions
\* and executed for the Safe by its module.  Here a plan is packed with the
\* encoder of the script and submitted as the script submits its batch, on
\* a chain state that need not be the one the plan was built on.  A plan
\* runs on a chain whose Aave pool is at the address the plan builder
\* names, the script's batch on one whose pool is at the script's.

InitPlan ==
    /\ pc \in {"plan", "build"}
    /\ caller = "optimizer"
    /\ minYieldDifference = NaN
    /\ pending = {}
    /\ fetched = [r \in Reads |-> 0]
    /\ yieldData = NoYieldData
    /\ aaveBalance = 0
    /\ compoundBalance = 0
    /\ transactions = <<>>
    /\ readOutcome = NoOutcome
    /\ awaiting = NoAwait
    /\ fork \in PlanForks
    /\ pc = "plan" => fork.pool = AAVE_POOL_ADDRESS_DEFAULT
    /\ pc = "build" => /\ fork.pool = AAVE_POOL
                       /\ fork.moduleEnabled
                       /\ fork.safeUsdc >= SUPPLY_AMOUNT
    /\ multiSendData = <<>>
    /\ execution = NoExecution
    /\ codec = NoCodec
    /\ job = NoJob
    /\ trigger = NoTrigger
    /\ chain = NoChain
    /\ order = <<>>
    /\ response = NoResponse
    /\ conversion = NoConversion

\* generateRebalanceTransactions from the amount on, for a decision to move
\* the funds of the current protocol into the other
PlanBuild ==
    /\ pc = "plan"
    /\ \E current \in {"aave", "compound"}, amount \in ForkAmounts \ {0} :
        LET better == IF current = "aave" THEN "compound" ELSE "aave"
            yd == [NoYieldData EXCEPT !.currentProtocol = current,
                                      !.betterProtocol = better,
                                      !.shouldMove = TRUE]
        IN  /\ yieldData' = yd
            /\ transactions' = RebalanceTransactions(yd, amount)
    /\ pc' = "planEncode"
    /\ UNCHANGED <<caller, minYieldDifference, pending, fetched, aaveBalance,
                   compoundBalance, readOutcome, awaiting, scriptVars, codec,
                   jobVars, cycleVars, conversion>>

\* the plan packed as a batch and wrapped as a call of multiSend
PlanEncode ==
    /\ pc = "planEncode"
    /\ multiSendData' =
          multiSendCalldata(
              encodeTransactions(PlanCalls(transactions, fork.safe)))
    /\ pc' = "execute"
    /\ UNCHANGED <<runVars, fork, execution, codec, jobVars, cycleVars,
                   conversion>>

NextPlan ==
    \/ PlanBuild
    \/ PlanEncode
    \/ _buildAaveSupplyMultiSend
    \/ _executeViaModule

SpecPlan == InitPlan /\ [][NextPlan]_vars

-----------------------------------------------------------------------------
\* Properties

\* compareYields has returned: yieldData is the comparison of the four reads
Compared ==
    pc \in {"decided", "importAave", "importCompound", "awaitAaveBalance",
            "awaitCompoundBalance", "returned"}

rateA == fetched["aaveAPY"]

rateB == fetched["compoundAPY"]

positionA == fetched["aaveBalance"]

positionB == fetched["compoundBalance"]

\* C1: shouldMove is true iff difference >= threshold and betterProtocol is
\* not equal and currentProtocol is not none and currentProtocol is not
\* betterProtocol; the boundary is inclusive (difference = threshold moves
\* when the other three hold, threshold = difference + 1 does not).
C1_ShouldMoveIff ==
    Compared =>
        LET t == minYieldDifference
            d == yieldData.difference
            others == /\ yieldData.betterProtocol # "equal"
                      /\ yieldData.currentProtocol # "none"
                      /\ yieldData.currentProtocol # yieldData.betterProtocol
        IN  /\ yieldData.shouldMove <=> ((~t.nan) /\ d >= t.val /\ others)
            /\ ((~t.nan) /\ d = t.val /\ others) => yieldData.shouldMove
            /\ ((~t.nan) /\ t.val = d + 1) => ~yieldData.shouldMove

\* C1 witness: a move decided with the difference exactly at the threshold
C1_Witness ==
    /\ pc = "decided"
    /\ yieldData.shouldMove
    /\ ~minYieldDifference.nan
    /\ yieldData.difference = minYieldDifference.val
    /\ minYieldDifference.val > 0

\* C2: equal rates never trigger a move, whatever the threshold (zero and
\* negative included) and the positions.
C2_EqualRatesNeverMove ==
    (Compared /\ rateA = rateB) => ~yieldData.shouldMove

\* C2 witness: equal rates, funds deposited, and a threshold the zero
\* difference meets
C2_Witness ==
    /\ pc = "decided"
    /\ rateA = rateB
    /\ positionA + positionB > 0
    /\ ~minYieldDifference.nan
    /\ minYieldDifference.val <= 0

\* C3: no move without a deposited position, and no move when the funds
\* already are in the better protocol, whatever the gap and the threshold.
C3_NoMoveWithoutPositionOrAlreadyBetter ==
    Compared =>
        /\ (positionA = 0 /\ positionB = 0) => ~yieldData.shouldMove
        /\ yieldData.currentProtocol = "none" => ~yieldData.shouldMove
        /\ yieldData.currentProtocol = yieldData.betterProtocol
              => ~yieldData.shouldMove
        /\ (positionA > 0 /\ rateA > rateB) => ~yieldData.shouldMove
        /\ (positionA = 0 /\ positionB > 0 /\ rateB > rateA)
              => ~yieldData.shouldMove

\* C3 witness: no position, the largest gap of the model, a negative threshold
C3_Witness ==
    /\ pc = "decided"
    /\ positionA = 0 /\ positionB = 0
    /\ yieldData.currentProtocol = "none"
    /\ yieldData.difference = MaxRate
    /\ ~minYieldDifference.nan
    /\ minYieldDifference.val < 0

\* the tags with the labels A and B exchanged
FlipTag(tag) ==
    IF tag = "aave" THEN "compound"
    ELSE IF tag = "compound" THEN "aave"
    ELSE tag

\* the comparison of the same reads with the labels A and B exchanged
SwappedComparison ==
    YieldComparison(rateB, rateA, positionB, positionA, minYieldDifference)

\* C4 as stated: for all rates and positions, exchanging the labels leaves the
\* difference and shouldMove unchanged and flips both tags.
C4_SwapSymmetry_AsStated ==
    Compared =>
        /\ SwappedComparison.difference = yieldData.difference
        /\ SwappedComparison.betterProtocol = FlipTag(yieldData.betterProtocol)
        /\ SwappedComparison.currentProtocol = FlipTag(yieldData.currentProtocol)
        /\ SwappedComparison.shouldMove = yieldData.shouldMove

\* C4 amended: exchanging the labels always leaves the difference unchanged
\* and flips betterProtocol; it flips currentProtocol and keeps shouldMove
\* whenever at most one of the two balances is positive.
C4_SwapSymmetry ==
    Compared =>
        /\ SwappedComparison.difference = yieldData.difference
        /\ SwappedComparison.betterProtocol = FlipTag(yieldData.betterProtocol)
        /\ ~(positionA > 0 /\ positionB > 0) =>
            /\ SwappedComparison.currentProtocol
                  = FlipTag(yieldData.currentProtocol)
            /\ SwappedComparison.shouldMove = yieldData.shouldMove

\* C4 witness: a move out of compound, which the exchange turns into a move
\* out of aave
C4_Witness ==
    /\ pc = "decided"
    /\ positionA = 0 /\ positionB > 0
    /\ yieldData.shouldMove
    /\ yieldData.currentProtocol = "compound"
    /\ SwappedComparison.shouldMove
    /\ SwappedComparison.currentProtocol = "aave"

\* C5: the difference is |rateA - rateB|: never negative, zero iff the rates
\* are equal.
C5_DifferenceIsAbsolute ==
    Compared =>
        /\ yieldData.difference
              = (IF rateA >= rateB THEN rateA - rateB ELSE rateB - rateA)
        /\ yieldData.difference >= 0
        /\ yieldData.difference = 0 <=> rateA = rateB

\* C5 witness: aave's rate below compound's
C5_Witness ==
    /\ pc = "decided"
    /\ rateA < rateB
    /\ yieldData.difference = rateB - rateA

\* C6: with a positive balance in both protocols currentProtocol is aave
\* whatever the sizes; it is compound only when aave's balance is zero and
\* compound's positive, and none only when both are zero.
C6_PositionPrecedence ==
    Compared =>
        /\ (positionA > 0 /\ positionB > 0)
              => yieldData.currentProtocol = "aave"
        /\ yieldData.currentProtocol = "aave" <=> positionA > 0
        /\ yieldData.currentProtocol = "compound"
              <=> (positionA = 0 /\ positionB > 0)
        /\ yieldData.currentProtocol = "none"
              <=> (positionA = 0 /\ positionB = 0)

\* C6 witness: both balances positive, compound's the larger
C6_Witness ==
    /\ pc = "decided"
    /\ positionA > 0
    /\ positionB > positionA
    /\ yieldData.currentProtocol = "aave"

\* C7 (the comparison is a deterministic function of its inputs) is not
\* stated: compareYields keeps no state between runs, so the model computes
\* yieldData with the operator YieldComparison, and two evaluations of one
\* operator on the same arguments agree in every model.

\* the balance of the current protocol as the builder re-read it
BalanceInCurrent ==
    IF yieldData.currentProtocol = "aave" THEN aaveBalance ELSE compoundBalance

\* the amount a transaction carries (second argument of withdraw, approve
\* and supply alike)
TxAmount(tx) == tx.data.args[2]

C8_Returned ==
    pc = "returned" =>
        /\ transactions # <<>>
              <=> (yieldData.shouldMove /\ BalanceInCurrent > 0)
        /\ \A i \in 1..Len(transactions) : TxAmount(transactions[i]) > 0

C8_Step ==
    /\ (pc = "decided" /\ ~yieldData.shouldMove)
          => (pc' = "returned" /\ transactions' = <<>>)
    /\ pc = "awaitCompoundBalance" => pc' = "returned"
    /\ pc \in {"reading", "decided", "importAave", "importCompound",
               "awaitAaveBalance", "awaitCompoundBalance"}
          => pc' # "threw"

\* C8: the builder returns a non-empty plan iff shouldMove is true and the
\* balance of currentProtocol it re-read is positive; otherwise it returns
\* the empty plan as a normal result (it never throws once compareYields
\* has its environment), and no plan holds a call with amount zero.
C8_PlanNonEmptyIff == [](C8_Returned) /\ [][C8_Step]_vars

\* C8 witness: a move was decided on a positive balance, the builder re-read
\* zero, and the plan is empty
C8_Witness ==
    /\ pc = "returned"
    /\ yieldData.shouldMove
    /\ BalanceInCurrent = 0
    /\ transactions = <<>>

\* the ABI of a protocol's market contract
AbiOf(protocol) ==
    IF protocol = "aave" THEN "AAVE_POOL_ABI" ELSE "COMPOUND_COMET_ABI"

\* the address of a protocol's market contract
Market(protocol) ==
    IF protocol = "aave" THEN AAVE_POOL_ADDRESS ELSE COMPOUND_COMET_ADDRESS

\* C9: every non-empty plan is exactly withdraw from currentProtocol, then
\* approve for the destination, then supply into betterProtocol, the three
\* with one amount; no plan has length 1, 2 or more than 3.
C9_ThreeCallsInOrder ==
    /\ Len(transactions) \in {0, 3}
    /\ Len(transactions) = 3 =>
        /\ transactions[1].data.fn = "withdraw"
        /\ transactions[1].data.abi = AbiOf(yieldData.currentProtocol)
        /\ transactions[2].data.fn = "approve"
        /\ transactions[2].data.abi = "ERC20_ABI"
        /\ transactions[3].data.fn = "supply"
        /\ transactions[3].data.abi = AbiOf(yieldData.betterProtocol)
        /\ TxAmount(transactions[2]) = TxAmount(transactions[1])
        /\ TxAmount(transactions[3]) = TxAmount(transactions[1])

\* C9 witness: the fork-test builder returned a plan of three calls
C9_Witness ==
    /\ pc = "returned"
    /\ caller = "forkTest"
    /\ Len(transactions) = 3
    /\ yieldData.currentProtocol = "aave"

\* C10: for a move from X to Y, call 1 targets X's market, call 2 targets
\* the token with Y's market as spender, call 3 targets Y's market; the
\* spender is the supply target, and every call has value 0.
C10_Targets ==
    transactions # <<>> =>
        /\ {yieldData.currentProtocol, yieldData.betterProtocol}
              = {"aave", "compound"}
        /\ transactions[1].to = Market(yieldData.currentProtocol)
        /\ transactions[2].to = tokenAddress
        /\ transactions[2].data.args[1] = Market(yieldData.betterProtocol)
        /\ transactions[3].to = Market(yieldData.betterProtocol)
        /\ transactions[2].data.args[1] = transactions[3].to
        /\ transactions[1].to # transactions[3].to
        /\ \A i \in 1..Len(transactions) : transactions[i].value = "0"

\* C10 witness: a plan for a move from compound to aave
C10_Witness ==
    /\ pc = "returned"
    /\ caller = "optimizer"
    /\ Len(transactions) = 3
    /\ yieldData.currentProtocol = "compound"
    /\ yieldData.betterProtocol = "aave"

\* C11: the amount of every non-empty plan is the whole balance of
\* currentProtocol as the builder read it (aave's when currentProtocol is
\* aave, compound's otherwise): never a part of it, never the other one.
C11_AmountIsWholeBalance ==
    (pc = "returned" /\ transactions # <<>>) =>
        /\ yieldData.currentProtocol = "aave" =>
              \A i \in 1..Len(transactions) :
                  TxAmount(transactions[i]) = aaveBalance
        /\ yieldData.currentProtocol # "aave" =>
              \A i \in 1..Len(transactions) :
                  TxAmount(transactions[i]) = compoundBalance

\* C11 witness: a plan built while the two balances differ and are positive
C11_Witness ==
    /\ pc = "returned"
    /\ caller = "optimizer"
    /\ Len(transactions) = 3
    /\ aaveBalance > 0
    /\ compoundBalance > aaveBalance
    /\ TxAmount(transactions[1]) = aaveBalance

\* C12: a read that fails with anything but an unsupported-reserve condition
\* (network error, malformed non-empty response), in a rate adapter or in a
\* position reader, fails the whole cycle: no decision is produced, and the
\* failure is not replaced by a rate or balance of 0.
C12_ReadFailureFailsCycle ==
    \A r \in Reads \cup BuilderReads :
        readOutcome[r] = "failed" => pc = "threw"

\* C13: a read that meets an unsupported asset (zero receipt-token address,
\* no contract, empty response) gives 0, as a rate and as a position, and
\* the cycle goes on to its decision instead of throwing.
C13_UnsupportedIsZero ==
    /\ \A r \in Reads :
          readOutcome[r] = "unsupported" =>
              /\ pc # "threw"
              /\ fetched[r] = 0
              /\ r \notin pending
    /\ readOutcome["builderAaveBalance"] = "unsupported" =>
          (pc # "threw" /\ aaveBalance = 0)
    /\ (Compared /\ readOutcome["aaveAPY"] = "unsupported") =>
          yieldData.aaveAPY = 0
    /\ (Compared /\ readOutcome["compoundAPY"] = "unsupported") =>
          yieldData.compoundAPY = 0

\* C13 witness: a decision made while the asset is not listed on Aave, rate
\* read and position read alike
C13_Witness ==
    /\ pc = "decided"
    /\ readOutcome["aaveAPY"] = "unsupported"
    /\ readOutcome["aaveBalance"] = "unsupported"
    /\ readOutcome["compoundAPY"] = "ok"
    /\ yieldData.aaveAPY = 0
    /\ yieldData.betterProtocol = "compound"

-----------------------------------------------------------------------------
\* The life of a job.  createYieldOptimizerJob generates the transactions
\* once and gives them to createJob; from then on TriggerX polls the monitor
\* and, when the condition is met, executes what the job holds.  Creation is
\* cycle 0, the condition checks are the cycles 1, 2, ...

InitJob ==
    /\ pc = "createJobEntry"
    /\ caller \in Callers
    /\ minYieldDifference = NaN
    /\ pending = {}
    /\ fetched = [r \in Reads |-> 0]
    /\ yieldData = NoYieldData
    /\ aaveBalance = 0
    /\ compoundBalance = 0
    /\ transactions = <<>>
    /\ readOutcome = NoOutcome
    /\ awaiting = NoAwait
    /\ fork = NoFork
    /\ multiSendData = <<>>
    /\ execution = NoExecution
    /\ codec = NoCodec
    /\ job = NoJob
    /\ trigger = NoTrigger
    /\ chain = NoChain
    /\ order = <<>>
    /\ response = NoResponse
    /\ conversion = NoConversion

\* createYieldOptimizerJob throws without PRIVATE_KEY or RPC_URL, and
\* otherwise goes on to await generateRebalanceTransactions, which calls
\* compareYields
JobGenerateTransactions ==
    /\ pc = "createJobEntry"
    /\ caller = "optimizer"
    /\ \E keys \in BOOLEAN :
        IF ~keys
        THEN /\ pc' = "threw"
             /\ UNCHANGED <<minYieldDifference, pending, awaiting>>
        ELSE compareYieldsCall
    /\ UNCHANGED <<caller, fetched, yieldData, aaveBalance, compoundBalance,
                   transactions, readOutcome, scriptVars, codec, jobVars,
                   cycleVars, conversion>>

\* createForkTestJob throws when one of its six variables is missing, and
\* otherwise awaits provider.getNetwork()
ForkTestJobStart ==
    /\ pc = "createJobEntry"
    /\ caller = "forkTest"
    /\ \E keys \in BOOLEAN :
        pc' = IF keys THEN "getNetwork" ELSE "threw"
    /\ UNCHANGED <<runVars, scriptVars, codec, jobVars, cycleVars,
                   conversion>>

\* getNetwork resolves and getBlockNumber is awaited, or it rejects
ForkTestGetNetwork ==
    /\ pc = "getNetwork"
    /\ \E resolved \in BOOLEAN :
        pc' = IF resolved THEN "getBlockNumber" ELSE "threw"
    /\ UNCHANGED <<runVars, scriptVars, codec, jobVars, cycleVars,
                   conversion>>

\* getBlockNumber resolves and generateTestRebalanceTransactions is
\* awaited, which calls compareYields; or it rejects
ForkTestGetBlockNumber ==
    /\ pc = "getBlockNumber"
    /\ \E resolved \in BOOLEAN :
        IF ~resolved
        THEN /\ pc' = "threw"
             /\ UNCHANGED <<minYieldDifference, pending, awaiting>>
        ELSE compareYieldsCall
    /\ UNCHANGED <<caller, fetched, yieldData, aaveBalance, compoundBalance,
                   transactions, readOutcome, scriptVars, codec, jobVars,
                   cycleVars, conversion>>

\* the builder has returned: its locals and those of compareYields are gone,
\* the transactions and the environment stay
BuilderLocalsGone ==
    /\ fetched' = [r \in Reads |-> 0]
    /\ yieldData' = NoYieldData
    /\ aaveBalance' = 0
    /\ compoundBalance' = 0
    /\ readOutcome' = NoOutcome
    /\ UNCHANGED <<caller, minYieldDifference, pending, transactions,
                   awaiting>>

\* generateRebalanceTransactions has returned to createYieldOptimizerJob,
\* which awaits signer.getAddress()
JobTransactionsReturned ==
    /\ pc = "returned"
    /\ caller = "optimizer"
    /\ pc' = "getAddress"
    /\ BuilderLocalsGone
    /\ UNCHANGED <<scriptVars, codec, jobVars, cycleVars, conversion>>

\* signer.getAddress() resolves; provider.getBalance is awaited
JobSignerAddress ==
    /\ pc = "getAddress"
    /\ pc' = "getBalance"
    /\ UNCHANGED <<runVars, scriptVars, codec, jobVars, cycleVars,
                   conversion>>

\* provider.getBalance rejects and createYieldOptimizerJob throws, or it
\* resolves: the job input is built from the transactions,
\* DYNAMIC_TRANSACTIONS_SCRIPT_URL and config.minYieldDifference (in main()
\* the threshold compareYields parsed) and createJob is awaited
JobWalletBalance ==
    /\ pc = "getBalance"
    /\ \E resolved \in BOOLEAN, dynamicScriptUrl \in ScriptUrls,
          configMinDiff \in ConfigThresholds \cup {minYieldDifference} :
        IF resolved
        THEN /\ job' = jobInput(transactions, dynamicScriptUrl, configMinDiff)
             /\ pc' = "createJob"
        ELSE /\ pc' = "threw"
             /\ UNCHANGED job
    /\ UNCHANGED <<runVars, scriptVars, codec, trigger, cycleVars,
                   conversion>>

\* generateTestRebalanceTransactions has returned to createForkTestJob: the
\* job input is built and createJob is awaited
ForkTestJobInput ==
    /\ pc = "returned"
    /\ caller = "forkTest"
    /\ job' = forkTestJobInput(transactions, minYieldDifference)
    /\ pc' = "createJob"
    /\ BuilderLocalsGone
    /\ UNCHANGED <<scriptVars, codec, trigger, cycleVars, conversion>>

\* createJob resolves and the function returns the job id, or it rejects
\* and the function throws
JobCreate ==
    /\ pc = "createJob"
    /\ \E created \in BOOLEAN :
        pc' = IF created THEN "monitoring" ELSE "threw"
    /\ transactions' = <<>>
    /\ UNCHANGED <<caller, minYieldDifference, pending, fetched, yieldData,
                   aaveBalance, compoundBalance, readOutcome, awaiting,
                   scriptVars, codec, jobVars, cycleVars, conversion>>

\* A request arrives at the monitor the job polls: TriggerX asks for the
\* value with GET.  A check that fired is followed by the execution before
\* the next request; with the request the next check begins.
MonitorRequest ==
    /\ pc = "monitoring"
    /\ trigger.cycle < MaxCycles
    /\ trigger.fired => trigger.executed # "none"
    /\ \E method \in Methods : handlerCall(method, "polling", "polled")
    /\ trigger' = [NoTrigger EXCEPT !.cycle = trigger.cycle]
    /\ UNCHANGED <<caller, minYieldDifference, fetched, yieldData,
                   aaveBalance, compoundBalance, transactions, readOutcome,
                   scriptVars, codec, job, chain, order, conversion>>

\* the contract read one of the handler's adapters awaits is answered, with
\* what the chain gives at that moment
MonitorSettle ==
    /\ pc = "polling"
    /\ \E r \in pending :
        \E resp \in Responses(IF awaiting[r] = "getUtilization" THEN {0}
                              ELSE Rates) :
            Settle("handler", r, resp)
    /\ UNCHANGED <<pc, caller, minYieldDifference, yieldData, aaveBalance,
                   compoundBalance, transactions, readOutcome, scriptVars,
                   codec, jobVars, chain, response, conversion>>

\* Promise.all has resolved: the handler answers and returns, its locals
\* are gone
MonitorRespond ==
    /\ pc = "polling"
    /\ handlerReturn("polled")
    /\ fetched' = [r \in Reads |-> 0]
    /\ order' = <<>>
    /\ UNCHANGED <<caller, minYieldDifference, pending, yieldData,
                   aaveBalance, compoundBalance, transactions, readOutcome,
                   awaiting, scriptVars, codec, jobVars, chain,
                   conversion>>

\* One condition check of TriggerX: it evaluates the job's condition on the
\* value of the body the handler answered its GET with (value =
\* |aaveAPY - compoundAPY| of the rates the handler read).  An answer
\* without value is no check.
TriggerXCheck ==
    /\ pc = "polled"
    /\ pc' = "monitoring"
    /\ IF Answered
       THEN LET answer == response.body[1]
            IN  trigger' = [NoTrigger EXCEPT
                               !.cycle = trigger.cycle + 1,
                               !.checked = TRUE,
                               !.value = answer.value,
                               !.aaveAPY = answer.metadata.aaveAPY,
                               !.compoundAPY = answer.metadata.compoundAPY,
                               !.fired = greaterThan(answer.value,
                                                     job.upperLimit)]
       ELSE UNCHANGED trigger
    /\ response' = NoResponse
    /\ UNCHANGED <<runVars, scriptVars, codec, job, chain, order,
                   conversion>>

\* The execution after a check that fired: a Static job executes its
\* safeTransactions and a Dynamic job the transactions its script gives
\* then.  fresh tells whether what is executed is what the builder gives on
\* the rates of the check and the balances of this moment, better and
\* holder which protocol pays more and which holds the funds.
TriggerXExecute ==
    /\ pc = "monitoring"
    /\ trigger.fired
    /\ trigger.executed = "none"
    /\ \E aaveBal \in Balances, compoundBal \in Balances :
        LET now == generateRebalanceTransactions(
                       trigger.aaveAPY, trigger.compoundAPY,
                       aaveBal, compoundBal, aaveBal, compoundBal,
                       minYieldDifference)
            static == job.argType = "Static"
        IN  trigger' =
                [trigger EXCEPT
                    !.executed = job.argType,
                    !.plan = IF static THEN job.safeTransactions ELSE <<>>,
                    !.builtInCycle = IF static THEN 0 ELSE trigger.cycle,
                    !.fresh = static => (job.safeTransactions = now),
                    !.better = betterProtocol(trigger.aaveAPY,
                                              trigger.compoundAPY),
                    !.holder = currentProtocol(aaveBal, compoundBal)]
    /\ UNCHANGED <<pc, runVars, scriptVars, codec, job, cycleVars,
                   conversion>>

NextJob ==
    \/ JobGenerateTransactions
    \/ ForkTestJobStart
    \/ ForkTestGetNetwork
    \/ ForkTestGetBlockNumber
    \/ getAaveAPY
    \/ getCompoundAPY
    \/ getAaveBalance
    \/ getCompoundBalance
    \/ compareYieldsReturn
    \/ CheckShouldMove
    \/ ImportAave
    \/ ImportCompound
    \/ BuilderAaveBalance
    \/ BuilderCompoundBalance
    \/ JobTransactionsReturned
    \/ JobSignerAddress
    \/ JobWalletBalance
    \/ ForkTestJobInput
    \/ JobCreate
    \/ MonitorRequest
    \/ MonitorSettle
    \/ MonitorRespond
    \/ TriggerXCheck
    \/ TriggerXExecute

SpecJob == InitJob /\ [][NextJob]_vars

-----------------------------------------------------------------------------
\* One decision cycle on a fixed block: compareYields, or the monitor's
\* handler, gives its adapters to Promise.all; the reads of the adapters are
\* answered one at a time in any order, each with what the block gives or
\* with the error of a failed request; when all adapters have settled the
\* function goes on with the array Promise.all resolved to.

InitCycle ==
    /\ pc = "cycleIdle"
    /\ caller = "optimizer"
    /\ minYieldDifference = NaN
    /\ pending = {}
    /\ fetched = [r \in Reads |-> 0]
    /\ yieldData = NoYieldData
    /\ aaveBalance = 0
    /\ compoundBalance = 0
    /\ transactions = <<>>
    /\ readOutcome = NoOutcome
    /\ awaiting = NoAwait
    /\ fork = NoFork
    /\ multiSendData = <<>>
    /\ execution = NoExecution
    /\ codec = NoCodec
    /\ job = NoJob
    /\ trigger = NoTrigger
    /\ chain \in Blocks
    /\ order = <<>>
    /\ response = NoResponse
    /\ conversion = NoConversion

\* the values of MIN_YIELD_DIFFERENCE in a cycle: unset, empty, or one
\* character
CycleEnvValues == {env \in EnvValues : Len(env.str) <= 1}

\* compareYields is called: it throws without its environment, and otherwise
\* parses the threshold and calls its four adapters
CycleCompareYields ==
    /\ pc = "cycleIdle"
    /\ caller' = "compareYields"
    /\ \E required \in BOOLEAN, env \in CycleEnvValues :
        IF ~required
        THEN /\ pc' = "threw"
             /\ UNCHANGED <<minYieldDifference, pending, awaiting>>
        ELSE /\ pc' = "cycleReading"
             /\ minYieldDifference' = parseInt(OrElse(env, <<"5", "0">>))
             /\ pending' = Reads
             /\ awaiting' = [r \in Reads \cup BuilderReads |->
                                IF r \in Reads THEN FirstCall[r] ELSE "none"]
    /\ UNCHANGED <<fetched, yieldData, aaveBalance, compoundBalance,
                   transactions, readOutcome, scriptVars, codec, jobVars,
                   cycleVars, conversion>>

\* the handler gets a request
CycleHandler ==
    /\ pc = "cycleIdle"
    /\ caller' = "handler"
    /\ \E method \in Methods :
        handlerCall(method, "cycleReading", "cycleResponded")
    /\ UNCHANGED <<minYieldDifference, fetched, yieldData, aaveBalance,
                   compoundBalance, transactions, readOutcome,
                   scriptVars, codec, jobVars, chain, order, conversion>>

\* the contract read one of the pending adapters awaits is answered
CycleSettle ==
    /\ pc = "cycleReading"
    /\ \E r \in pending :
        \E resp \in Answers(chain, r, awaiting[r]) :
            Settle(caller, r, resp)
    /\ UNCHANGED <<pc, caller, minYieldDifference, yieldData, aaveBalance,
                   compoundBalance, transactions, readOutcome, scriptVars,
                   codec, jobVars, chain, response, conversion>>

\* Promise.all has resolved: compareYields returns its comparison
CycleCompareYieldsReturn ==
    /\ pc = "cycleReading"
    /\ caller = "compareYields"
    /\ pending = {}
    /\ LET results == PromiseAll(compareYieldsReads, fetched, order)
       IN  yieldData' = YieldComparison(results[1], results[2], results[3],
                                        results[4], minYieldDifference)
    /\ pc' = "cycleDecided"
    /\ UNCHANGED <<caller, minYieldDifference, pending, fetched, aaveBalance,
                   compoundBalance, transactions, readOutcome, awaiting,
                   scriptVars, codec, jobVars, cycleVars, conversion>>

\* Promise.all has resolved: the handler answers
CycleHandlerReturn ==
    /\ pc = "cycleReading"
    /\ caller = "handler"
    /\ handlerReturn("cycleResponded")
    /\ UNCHANGED <<runVars, scriptVars, codec, jobVars, chain, order,
                   conversion>>

NextCycle ==
    \/ CycleCompareYields
    \/ CycleHandler
    \/ CycleSettle
    \/ CycleCompareYieldsReturn
    \/ CycleHandlerReturn

SpecCycle == InitCycle /\ [][NextCycle]_vars

-----------------------------------------------------------------------------
\* The rate adapters from their call to their return: the chain holds a
\* rate (and for Compound a utilization); the adapter makes its reads one
\* after the other, each at an await, and turns the rate into basis points.

\* the reads of an adapter of the conversions, in their order
ConvertCalls(who, adapter) ==
    LET r == IF adapter = "aave" THEN "aaveAPY" ELSE "compoundAPY"
    IN  IF who = "handler" THEN HandlerCalls[r] ELSE AdapterCalls[r]

\* A conversion to make: the adapter (of compareYields or of the monitor's
\* handler), the rate the chain gives it and, for Compound, the utilization
\* the chain gives; stops is the read, if any, that gets a response the
\* adapter does not go on with (a failed request, no aToken, no code).
\* read is the utilization the adapter holds (-1: not yet assigned).
Conversions ==
    {[adapter |-> a, who |-> w, rate |-> r, utilization |-> u, stops |-> s,
      awaiting |-> "none", read |-> -1, calls |-> <<>>, done |-> FALSE,
      bp |-> <<>>] :
        a \in {"aave"}, w \in {"compareYields", "handler"},
        r \in LiquidityRates, u \in {0},
        s \in {"none", "getReserveTokensAddresses", "getReserveData"}}
    \cup {[adapter |-> a, who |-> w, rate |-> r, utilization |-> u,
           stops |-> s, awaiting |-> "none", read |-> -1, calls |-> <<>>,
           done |-> FALSE, bp |-> <<>>] :
            a \in {"compound"}, w \in {"compareYields", "handler"},
            r \in SupplyRates, u \in 0..MaxUtilization,
            s \in {"none", "getCode", "getUtilization", "getSupplyRate"}}

InitConvert ==
    /\ pc = "convert"
    /\ caller = "optimizer"
    /\ minYieldDifference = NaN
    /\ pending = {}
    /\ fetched = [r \in Reads |-> 0]
    /\ yieldData = NoYieldData
    /\ aaveBalance = 0
    /\ compoundBalance = 0
    /\ transactions = <<>>
    /\ readOutcome = NoOutcome
    /\ awaiting = NoAwait
    /\ fork = NoFork
    /\ multiSendData = <<>>
    /\ execution = NoExecution
    /\ codec = NoCodec
    /\ job = NoJob
    /\ trigger = NoTrigger
    /\ chain = NoChain
    /\ order = <<>>
    /\ response = NoResponse
    /\ conversion \in
          {c \in Conversions :
              c.stops \in {"none"} \cup
                  {ConvertCalls(c.who, c.adapter)[i] :
                      i \in 1..Len(ConvertCalls(c.who, c.adapter))}}

\* the adapter makes the read fn and awaits it; args holds the utilization
\* given to getSupplyRate (the addresses the other reads take are
\* constants)
Issue(c, fn, args) ==
    [c EXCEPT !.awaiting = fn,
              !.calls = Append(@, [fn |-> fn, args |-> args])]

\* the adapter returns bp
Return(c, bp) == [c EXCEPT !.awaiting = "none", !.done = TRUE, !.bp = bp]

\* The read the adapter awaits is answered: with a response it does not go
\* on with it returns 0, otherwise it goes on as after says.
ConvertAnswer(call, after) ==
    /\ conversion.awaiting = call
    /\ conversion' = IF conversion.stops = call
                     THEN Return(conversion, <<>>)
                     ELSE after
    /\ UNCHANGED <<pc, runVars, scriptVars, codec, jobVars, cycleVars>>

\* the adapter is called and makes its first read
ConvertCall ==
    /\ pc = "convert"
    /\ conversion.awaiting = "none"
    /\ ~conversion.done
    /\ conversion' = Issue(conversion,
                           ConvertCalls(conversion.who,
                                        conversion.adapter)[1], <<>>)
    /\ UNCHANGED <<pc, runVars, scriptVars, codec, jobVars, cycleVars>>

\* getAaveAPY: the reserve has an aToken, getReserveData is read
ConvertReserveTokens ==
    /\ pc = "convert"
    /\ ConvertAnswer("getReserveTokensAddresses",
                     Issue(conversion, "getReserveData", <<>>))

\* getAaveAPY from the reserve data on: the liquidity rate to basis points
ConvertAaveRate ==
    /\ pc = "convert"
    /\ ConvertAnswer("getReserveData",
                     Return(conversion, aaveBasisPoints(conversion.rate)))

\* getCompoundAPY: Comet has code, getUtilization is read
ConvertCode ==
    /\ pc = "convert"
    /\ ConvertAnswer("getCode", Issue(conversion, "getUtilization", <<>>))

\* getCompoundAPY: utilization = await comet.getUtilization(), then
\* comet.getSupplyRate(utilization) is read
ConvertUtilization ==
    /\ pc = "convert"
    /\ ConvertAnswer("getUtilization",
                     LET held == [conversion EXCEPT
                                     !.read = conversion.utilization]
                     IN  Issue(held, "getSupplyRate", <<held.read>>))

\* getCompoundAPY from the supply rate on: the rate to basis points
ConvertCompoundRate ==
    /\ pc = "convert"
    /\ ConvertAnswer("getSupplyRate",
                     Return(conversion, compoundBasisPoints(conversion.rate)))

NextConvert ==
    \/ ConvertCall
    \/ ConvertReserveTokens
    \/ ConvertAaveRate
    \/ ConvertCode
    \/ ConvertUtilization
    \/ ConvertCompoundRate

SpecConvert == InitConvert /\ [][NextConvert]_vars

-----------------------------------------------------------------------------
\* The batch encoder as a function: a call list is drawn, packed as
\* _buildAaveSupplyMultiSend packs its two calls, and read back as the batch
\* executor reads it.

InitBatch ==
    /\ pc = "batch"
    /\ caller = "optimizer"
    /\ minYieldDifference = NaN
    /\ pending = {}
    /\ fetched = [r \in Reads |-> 0]
    /\ yieldData = NoYieldData
    /\ aaveBalance = 0
    /\ compoundBalance = 0
    /\ transactions = <<>>
    /\ readOutcome = NoOutcome
    /\ awaiting = NoAwait
    /\ fork = NoFork
    /\ multiSendData = <<>>
    /\ execution = NoExecution
    /\ \E calls \in CallLists :
        codec = [step |-> "drawn", calls |-> calls, bytes |-> <<>>,
                 parsed |-> <<>>]
    /\ job = NoJob
    /\ trigger = NoTrigger
    /\ chain = NoChain
    /\ order = <<>>
    /\ response = NoResponse
    /\ conversion = NoConversion

EncodeBatch ==
    /\ codec.step = "drawn"
    /\ codec' = [codec EXCEPT !.step = "encoded",
                              !.bytes = encodeTransactions(codec.calls)]
    /\ UNCHANGED <<pc, runVars, scriptVars, jobVars, cycleVars,
                   conversion>>

DecodeBatch ==
    /\ codec.step = "encoded"
    /\ codec' = [codec EXCEPT !.step = "decoded",
                              !.parsed = parseTransactions(codec.bytes)]
    /\ UNCHANGED <<pc, runVars, scriptVars, jobVars, cycleVars,
                   conversion>>

NextBatch ==
    \/ EncodeBatch
    \/ DecodeBatch

SpecBatch == InitBatch /\ [][NextBatch]_vars

-----------------------------------------------------------------------------
\* Properties of the Safe module script

\* the packed batch inside the calldata the script built
BuiltBatch == multiSendArgument(multiSendData)

\* the protocol a plan withdraws from
PlanSource(plan) ==
    IF plan[1].to = AAVE_POOL_ADDRESS THEN "aave" ELSE "compound"

\* the state of the wallet after every call of the executed batch took
\* effect: for the script's batch the amount has gone from the Safe's USDC
\* into Aave; for a plan the amount has gone from the position of the
\* source into the one of the destination; the allowance the batch gave
\* is used up
AllApplied ==
    LET before == execution.before
        amount == TxAmount(transactions[1])
    IN  IF transactions = <<>>
        THEN fork = [before EXCEPT !.allowance = 0,
                                   !.safeUsdc = @ - SUPPLY_AMOUNT,
                                   !.aToken = @ + SUPPLY_AMOUNT]
        ELSE IF PlanSource(transactions) = "aave"
        THEN fork = [before EXCEPT !.aToken = @ - amount,
                                   !.comet = @ + amount,
                                   !.cometAllowance = 0]
        ELSE fork = [before EXCEPT !.comet = @ - amount,
                                   !.aToken = @ + amount,
                                   !.allowance = 0]

\* the number of inner calls of the executed batch
BatchLength == IF transactions = <<>> THEN 2 ELSE Len(transactions)

\* C15: a batch execution is all or nothing: either every inner call took
\* effect (withdraw, approve and supply of a plan; approve and supply of
\* the script), or the batch reverted and the wallet's balances in both
\* protocols and its allowances are what they were before the attempt; no
\* state with only a prefix of the calls applied is reached.
C15_AllOrNothing ==
    execution.called =>
        \/ /\ execution.success
           /\ execution.applied = BatchLength
           /\ AllApplied
        \/ /\ ~execution.success
           /\ execution.applied = 0
           /\ fork = execution.before

\* C15 witness: of a plan of three calls the withdraw and the approve went
\* through, the supply reverted, and position and allowance, which the two
\* had changed, are back at their earlier values
C15_Witness ==
    /\ execution.called
    /\ ~execution.success
    /\ Len(transactions) = 3
    /\ execution.ran = 2
    /\ PlanSource(transactions) = "aave"
    /\ execution.before.aToken >= TxAmount(transactions[1])
    /\ execution.before.cometAllowance # TxAmount(transactions[1])
    /\ fork.aToken = execution.before.aToken
    /\ fork.cometAllowance = execution.before.cometAllowance
    /\ fork.comet = execution.before.comet

\* C16: execTransactionFromModule is called only while the module is
\* enabled: the script reaches the call only through the isModuleEnabled
\* check, and the module is enabled in the state the call is made in.
C16_OnlyWhileEnabled ==
    /\ pc \in {"build", "execute"} => fork.moduleEnabled
    /\ execution.called => execution.enabledAtCall

\* C16 witness: the call was made on a fork whose module enableModule had
\* to enable first
C16_Witness ==
    /\ execution.called
    /\ execution.enabledAtCall
    /\ execution.before.enableModule = "enables"
    /\ execution.before.safeUsdc = SUPPLY_AMOUNT
    /\ execution.success

\* C17: the outer call of the module execution carries the operation
\* DELEGATECALL (1), and every inner call of the packed batch the tag CALL
\* (0).
C17_OperationTags ==
    /\ execution.called =>
          /\ execution.submission.operation = 1
          /\ execution.submission.to = MULTISEND_CALL_ONLY
          /\ execution.submission.data = multiSendData
    /\ pc \in {"execute", "logFinal", "completed"} =>
          LET batch == BuiltBatch
              inner == parseTransactions(batch)
          IN  /\ Len(inner) = 2
              /\ \A i \in 1..Len(inner) : inner[i].operation = 0
              /\ batch[1] = 0
              /\ batch[1 + 85 + 68] = 0

\* C17 witness: the batch was executed with success
C17_Witness ==
    /\ pc = "completed"
    /\ execution.called
    /\ execution.success
    /\ Len(BuiltBatch) = 370

\* C18 (state part): a module execution that returns success = false ends
\* the attempt in the fatal state, with nothing of the batch applied.
C18_FailureState ==
    (execution.called /\ ~execution.success) =>
        (pc = "reverted" /\ fork = execution.before)

\* C18 (step part): nothing follows the fatal state, and after the call of
\* execTransactionFromModule no step touches the chain again: no inner call
\* is retried on its own.
C18_FailureStep ==
    /\ pc # "reverted"
    /\ execution.called => UNCHANGED <<fork, execution, multiSendData>>

\* C18: a failed module execution is fatal for the attempt; its steps are
\* not retried one by one, a retry is a new run from the start.
C18_FailureIsFatal == [](C18_FailureState) /\ [][C18_FailureStep]_vars

\* C18 witness: success = false with the module enabled, the script reverted
C18_Witness ==
    /\ pc = "reverted"
    /\ execution.called
    /\ execution.enabledAtCall
    /\ ~execution.success

-----------------------------------------------------------------------------
\* Properties of the batch encoder

RECURSIVE RecordStart(_, _)
\* the number of bytes before the i-th record of the batch of calls
RecordStart(calls, i) ==
    IF i = 1 THEN 0
    ELSE RecordStart(calls, i - 1) + 85 + Len(calls[i - 1].data)

\* word is the 32-byte big-endian form of n (n below 2^31)
IsBigEndianWord(word, n) ==
    /\ Len(word) = 32
    /\ \A k \in 0..31 :
          word[32 - k] = IF k > 3 THEN 0 ELSE (n \div (256 ^ k)) % 256

\* C19: every call is packed as tag (1 byte, 0), target (20 bytes), value
\* (32 bytes big-endian), payload length (32 bytes big-endian), payload; the
\* batch is these records one after the other with nothing between: record
\* i starts where record i-1 ends, and the batch is as long as the sum of
\* 85 + payload length over the calls.
C19_PackedLayout ==
    codec.step \in {"encoded", "decoded"} =>
        LET calls == codec.calls
            bytes == codec.bytes
            n == Len(calls)
        IN  /\ Len(bytes) = RecordStart(calls, n + 1)
            /\ \A i \in 1..n :
                  LET at == RecordStart(calls, i)
                      size == Len(calls[i].data)
                  IN  /\ bytes[at + 1] = 0
                      /\ SubSeq(bytes, at + 2, at + 21) = calls[i].to
                      /\ IsBigEndianWord(SubSeq(bytes, at + 22, at + 53),
                                         calls[i].value)
                      /\ IsBigEndianWord(SubSeq(bytes, at + 54, at + 85),
                                         size)
                      /\ SubSeq(bytes, at + 86, at + 85 + size)
                             = calls[i].data

\* C19 witness: two calls with different payload lengths and a value of two
\* bytes, packed
C19_Witness ==
    /\ codec.step = "encoded"
    /\ Len(codec.calls) = 2
    /\ Len(codec.calls[1].data) = 68
    /\ Len(codec.calls[2].data) = 132
    /\ codec.calls[1].value = 258
    /\ Len(codec.bytes) = 370

\* C20: reading a packed batch back gives the call list that was packed, in
\* order, for every number of calls from 0 on; the empty list is packed as
\* the empty byte string.
C20_RoundTrip ==
    /\ codec.step \in {"encoded", "decoded"} =>
          (codec.calls = <<>> <=> codec.bytes = <<>>)
    /\ codec.step = "decoded" =>
          /\ Len(codec.parsed) = Len(codec.calls)
          /\ \A i \in 1..Len(codec.calls) :
                codec.parsed[i] = [operation |-> CALL,
                                   to |-> codec.calls[i].to,
                                   value |-> codec.calls[i].value,
                                   data |-> codec.calls[i].data]

\* C20 witness: a list of two different calls, one without payload, read
\* back
C20_Witness ==
    /\ codec.step = "decoded"
    /\ Len(codec.parsed) = 2
    /\ codec.parsed[1].data = <<>>
    /\ codec.parsed[2].data # <<>>
    /\ codec.parsed[1].to # codec.parsed[2].to
    /\ codec.parsed[2].value = 258

-----------------------------------------------------------------------------
\* Properties of the job

\* a rebalance plan (withdraw, approve, supply), not the placeholder
IsRebalancePlan(plan) == Len(plan) = 3

\* C14: every rebalance plan that is executed was built from the rates and
\* positions of the cycle that triggered it, never from an earlier cycle's
\* (such as the one of the job's creation).
C14_PlanFromTriggeringCycle ==
    (trigger.executed # "none" /\ IsRebalancePlan(trigger.plan)) =>
        /\ trigger.builtInCycle = trigger.cycle
        /\ trigger.fresh

\* createYieldOptimizerJob has given its job input to createJob
JobSubmitted == pc = "createJob" /\ caller = "optimizer"

\* the placeholder: the one call of nonce() on the Safe
IsPlaceholder(plan) == plan = generatePlaceholderTransaction(safeAddress)

\* C25: the placeholder is submitted only when no rebalance is available:
\* when generateRebalanceTransactions returned a plan, the job carries that
\* plan or a public script URL and never the placeholder, whatever
\* DYNAMIC_TRANSACTIONS_SCRIPT_URL is.
C25_PlaceholderOnlyWithoutPlan ==
    (JobSubmitted /\ transactions # <<>>) =>
        /\ ~IsPlaceholder(job.safeTransactions)
        /\ \/ job.safeTransactions = transactions
           \/ job.dynamicArgumentsScriptUrl.set

\* C26: the job's condition fires for exactly the differences that satisfy
\* the threshold clause of the decision: a check with difference d and
\* threshold t fires if and only if d >= t.
C26_FiresIffAtLeastThreshold ==
    trigger.checked =>
        (trigger.fired <=> conditionMet(trigger.value, job.upperLimit))

\* C27: when the condition fires and the job's static plan is executed, the
\* plan supplies into the protocol that pays strictly more at that moment
\* and withdraws from the protocol that holds the funds at that moment.
C27_DirectionAtTrigger ==
    (trigger.executed = "Static"
        /\ IsRebalancePlan(trigger.plan)) =>
        /\ trigger.better \in {"aave", "compound"}
        /\ trigger.plan[3].to = Market(trigger.better)
        /\ trigger.holder \in {"aave", "compound"}
        /\ trigger.plan[1].to = Market(trigger.holder)

\* C30: every job input createYieldOptimizerJob gives to createJob carries exactly one of a
\* non-empty safeTransactions and a dynamicArgumentsScriptUrl; its argType
\* is Static exactly when safeTransactions is set and Dynamic exactly when
\* the script URL is set.
C30_OneArgumentSource ==
    JobSubmitted =>
        /\ (job.safeTransactions # <<>>) # job.dynamicArgumentsScriptUrl.set
        /\ job.argType = "Static" <=> job.safeTransactions # <<>>
        /\ job.argType = "Dynamic" <=> job.dynamicArgumentsScriptUrl.set

\* a plan was generated and a public script URL is set: the job is Dynamic
C30_Witness ==
    /\ JobSubmitted
    /\ transactions # <<>>
    /\ job.argType = "Dynamic"
    /\ job.dynamicArgumentsScriptUrl.set
    /\ job.safeTransactions = <<>>

-----------------------------------------------------------------------------
\* Properties of a decision cycle on a fixed block

\* what adapter r returned in this cycle
Seen(r) == fetched[r]

\* an adapter returns what it returns on the block when its requests go
\* through, and 0 when one of them fails
FromBlock ==
    \A r \in (IF caller = "handler" THEN DOMAIN HandlerCalls ELSE Reads) :
        Seen(r) \in {BlockResult(caller, r, chain), 0}

\* the decision compareYields makes when it awaits its four adapters one
\* after the other on the block, with the same requests failing
SequentialDecision ==
    YieldComparison(Seen("aaveAPY"), Seen("compoundAPY"),
                    Seen("aaveBalance"), Seen("compoundBalance"),
                    minYieldDifference)

\* C21: the reads of a cycle are issued together and settle in any order;
\* whatever the order, the decision of compareYields is the one it makes
\* when the reads are performed one after the other, and so is the
\* handler's response.
C21_OrderIndependent ==
    /\ pc \in {"cycleDecided", "cycleResponded"} => FromBlock
    /\ pc = "cycleDecided" => yieldData = SequentialDecision
    /\ (pc = "cycleResponded" /\ Answered) =>
           response.body[1] =
               MonitorResponse(Seen("aaveAPY"), Seen("compoundAPY"))

\* a decision to move was made from reads that settled in another order than
\* they were issued in, on a block whose values differ from place to place
C21_Witness ==
    /\ pc = "cycleDecided"
    /\ order = <<"compoundBalance", "aaveBalance", "compoundAPY", "aaveAPY">>
    /\ \A r \in Reads : fetched[r] = BlockResult(caller, r, chain)
    /\ chain.reserveData # chain.cometBalance
    /\ chain.reserveData # chain.supplyRate
    /\ yieldData.shouldMove

\* C22: for every pair of rates the handler reports the difference and the
\* betterProtocol compareYields computes ("equal" for equal rates), and its
\* response includes the move flag.
C22_HandlerAgreesWithComparator ==
    (pc = "cycleResponded" /\ Answered) =>
        /\ response.body[1].metadata.difference =
               difference(Seen("aaveAPY"), Seen("compoundAPY"))
        /\ response.body[1].metadata.betterProtocol =
               betterProtocol(Seen("aaveAPY"), Seen("compoundAPY"))
        /\ "shouldMove" \in DOMAIN response.body[1].metadata

-----------------------------------------------------------------------------
\* Properties of the rate conversions

\* floor(num / den) in whole numbers
ExactFloor(num, den) == Then(num, LAMBDA n : BDiv(n, den))

\* C23: for every liquidity rate (1e27-scaled, not negative) the Aave
\* adapter returns floor(rate * 10000 / 1e27), a whole number of basis
\* points rounded down.
C23_AaveFloor ==
    (conversion.adapter = "aave" /\ conversion.done
                                /\ conversion.stops = "none") =>
        conversion.bp =
            ExactFloor(BMul(conversion.rate, BigInt(10000)),
                       BigLit(<<1000, 0, 0, 0, 0, 0, 0>>))

\* C24: for every supply rate per second (1e18-scaled, not negative) the
\* Compound adapter returns floor(rate * 31557600 * 10000 / 1e18) basis
\* points; it reads the utilization first and asks the supply rate for the
\* utilization it read.
C24_CompoundFloor ==
    (conversion.adapter = "compound" /\ conversion.done
                                    /\ conversion.stops = "none") =>
        /\ conversion.bp =
               ExactFloor(BMul(BMul(conversion.rate, BigInt(31557600)),
                               BigInt(10000)),
                          BigLit(<<100, 0, 0, 0, 0>>))
        /\ LET n == Len(conversion.calls)
           IN  /\ n >= 2
               /\ conversion.calls[n - 1].fn = "getUtilization"
               /\ conversion.calls[n] =
                      [fn |-> "getSupplyRate",
                       args |-> <<conversion.utilization>>]

-----------------------------------------------------------------------------
\* Properties of a run whose reads fail or change under it

\* C28: shouldMove is true only when both rates of the comparison were read
\* from the chain: after a failed read of either protocol's rate the run
\* never gives shouldMove = TRUE, and so never a plan that is not empty, on
\* a rate of 0 put in its place.
C28_MoveOnlyOnReadRates ==
    (readOutcome["aaveAPY"] = "failed" \/ readOutcome["compoundAPY"] = "failed")
        => (~yieldData.shouldMove /\ transactions = <<>>)

\* the positive balance of the current protocol as compareYields read it
ObservedBalance ==
    IF yieldData.currentProtocol = "aave" THEN fetched["aaveBalance"]
    ELSE fetched["compoundBalance"]

\* C29: the plan of generateRebalanceTransactions is built from the
\* snapshot of the decision: the amount of a plan that is not empty is the
\* balance of currentProtocol that compareYields observed, whatever the
\* wallet's balances are when the builder reads them.
C29_PlanFromDecisionSnapshot ==
    (pc = "returned" /\ caller = "optimizer" /\ transactions # <<>>) =>
        \A i \in 1..Len(transactions) :
            TxAmount(transactions[i]) = ObservedBalance

=============================================================================
